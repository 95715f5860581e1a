----------------------------- MODULE ImageChecks -----------------------------
(***************************************************************************)
(* The image phase of a crawl: the images the parser reads of a page       *)
(* (api/crawler/parser.py), which of them are measured (engine.py), what   *)
(* is found about each (image_analyzer.py) and how it is scored.           *)
(*                                                                         *)
(* An answer is what the server of an image has for it: head (a HEAD is    *)
(* answered 200) with head_size and mime, and status, bytes, hash, decodes *)
(* (it is an image), image_type (it says it is one), width, height and     *)
(* time of a GET; late, when that is not over within the phase.            *)
(***************************************************************************)
EXTENDS PageParser, HealthScore

IMAGE_URL_CAP_PER_JOB == 150
IMAGE_DIMENSION_MAX_COUNT == 150
IMAGE_DIMENSION_MAX_BYTES == 12 * 1024 * 1024
IMAGE_DIMENSION_TOTAL_BYTES == 48 * 1024 * 1024
IMAGE_DIMENSION_UNKNOWN_SIZE == 150 * 1024

-----------------------------------------------------------------------------
\* What the parser keeps of an image whose address it can resolve.

detect_decorative(e) ==
    \/ Get(e, "role", "") = "presentation"
    \/ Has(e, "aria_hidden")
    \/ Get(e, "alt", "") = "empty"
    \/ Get(e, "width", 999) < 32 /\ Get(e, "height", 999) < 32

image_data(d, page) ==
    Read(d, image_urls(d),
         LAMBDA i : [url |-> resolve_img_src(d[i]), page |-> page,
                     alt |-> Get(d[i], "alt", "missing"), alt_n |-> Get(d[i], "alt_n", 0),
                     alt_marks |-> d[i].marks \cap {"generic alt", "filename alt"},
                     rendered_width |-> Get(d[i], "width", Unknown),
                     has_srcset |-> Has(d[i], "srcset"),
                     is_decorative |-> detect_decorative(d[i])])

\* The first image of each address among the pages, in the order of the crawl.
image_data_queue(seen) ==
    LET distinct == {i \in DOMAIN seen : \A j \in 1 .. i - 1 : seen[j].url.id # seen[i].url.id}
        first == Read(seen, distinct, LAMBDA k : seen[k])
    IN SubSeq(first, 1, AtMost(Len(first), IMAGE_URL_CAP_PER_JOB))

\* An image is measured while the count and the bytes allowed last; one larger
\* than what is left is passed over, and a smaller one after it may be taken.
measured_images(queue, answers) ==
    LET size(x) == IF answers[x.url.id].head THEN answers[x.url.id].head_size ELSE Unknown
        cost(x) == IF size(x) > 0 THEN size(x) ELSE IMAGE_DIMENSION_UNKNOWN_SIZE
        take(acc, x) ==
            IF \/ Cardinality(acc.chosen) >= IMAGE_DIMENSION_MAX_COUNT
               \/ size(x) > IMAGE_DIMENSION_MAX_BYTES
               \/ cost(x) > acc.left
            THEN acc
            ELSE [left |-> acc.left - cost(x), chosen |-> acc.chosen \cup {x.url.id}]
    IN FoldLeft(take, [left |-> IMAGE_DIMENSION_TOTAL_BYTES, chosen |-> {}], queue).chosen

\* A refusal, a body too large and a page in place of an image leave only the
\* status; nothing at all is known of one that came too late.
fetch_image_dimensions(a) ==
    LET nothing == [http_status |-> 0, bytes |-> Unknown, hash |-> "", time |-> 0,
                    width |-> Unknown, height |-> Unknown]
        refused == \/ a.status >= 400
                   \/ a.bytes > IMAGE_DIMENSION_MAX_BYTES
                   \/ ~a.decodes /\ ~a.image_type
    IN IF a.late \/ a.status = 0 THEN nothing
       ELSE IF refused THEN [nothing EXCEPT !.http_status = a.status]
       ELSE [http_status |-> a.status, bytes |-> a.bytes, hash |-> a.hash, time |-> a.time,
             width |-> IF a.decodes THEN a.width ELSE Unknown,
             height |-> IF a.decodes THEN a.height ELSE Unknown]

guess_format(u) ==
    IF u.marks \cap {"jpeg", "png", "gif"} # {} THEN "legacy" ELSE "other"

ImageInfo(x, a, measured) ==
    LET m == IF measured THEN fetch_image_dimensions(a)
             ELSE fetch_image_dimensions([a EXCEPT !.late = TRUE])
    IN m @@ x @@ [file_size |-> IF m.bytes # Unknown THEN m.bytes
                                ELSE IF a.head THEN a.head_size ELSE Unknown,
                  format |-> IF a.head /\ a.mime # "" THEN a.mime ELSE guess_format(x.url)]

-----------------------------------------------------------------------------
\* What is found about one image; limit is the largest size in kilobytes.

SLOW_LOAD_THRESHOLD_MS == 1000
ALT_MIN_LENGTH == 5
ALT_MAX_LENGTH == 125
LEGACY_FORMAT_THRESHOLD_KB == 50
MIN_PIXELS_FOR_BPP == 10000
MIN_BYTES_FOR_BPP == 50 * 1024

Found(condition, code) == IF condition THEN {code} ELSE {}

check_alt_text(x) ==
    IF ~x.is_decorative /\ x.alt \in {"missing", "blank"} THEN {"IMG_ALT_MISSING"}
    ELSE IF x.alt # "text" THEN {}
    ELSE Found(x.is_decorative, "IMG_ALT_MISUSED")
         \cup Found(x.alt_n < ALT_MIN_LENGTH, "IMG_ALT_TOO_SHORT")
         \cup Found(x.alt_n > ALT_MAX_LENGTH, "IMG_ALT_TOO_LONG")
         \cup Found("generic alt" \in x.alt_marks, "IMG_ALT_GENERIC")
         \cup Found("filename alt" \in x.alt_marks, "IMG_ALT_DUP_FILENAME")

oversized(x, limit) == x.file_size > limit * 1024
overscaled(x) == x.width > 0 /\ x.rendered_width > 0 /\ x.width > 2 * x.rendered_width

\* More than half a byte for each pixel, of an image worth the measure.
poorly_compressed(x) ==
    LET pixels == x.width * x.height IN
    /\ x.file_size > 0 /\ x.width > 0 /\ x.height > 0
    /\ pixels >= MIN_PIXELS_FOR_BPP \/ x.file_size >= MIN_BYTES_FOR_BPP
    /\ 2 * x.file_size > pixels

\* A load is slow on its own account only.
check_performance(x, limit) ==
    Found(oversized(x, limit), "IMG_OVERSIZED")
    \cup Found(overscaled(x), "IMG_OVERSCALED")
    \cup Found(~oversized(x, limit) /\ ~overscaled(x) /\ x.time > SLOW_LOAD_THRESHOLD_MS,
               "IMG_SLOW_LOAD")
    \cup Found(~oversized(x, limit) /\ poorly_compressed(x), "IMG_POOR_COMPRESSION")

check_format(x) ==
    Found(x.format = "legacy" /\ x.file_size > LEGACY_FORMAT_THRESHOLD_KB * 1024, "IMG_FORMAT_LEGACY")

check_responsive(x) ==
    Found(~x.has_srcset /\ x.rendered_width > 0 /\ x.width > x.rendered_width, "IMG_NO_SRCSET")

check_broken(x) == Found(x.http_status >= 400, "IMG_BROKEN")

analyze_image(x, limit) ==
    check_alt_text(x) \cup check_performance(x, limit) \cup check_format(x)
    \cup check_responsive(x) \cup check_broken(x)

\* Parameters that only resize an image or defeat a cache do not name another.
image_identity(u) ==
    <<u.scheme, u.host, u.path, IF u.query /\ "noise query" \notin u.marks THEN u.id ELSE "">>

\* The same bytes under several names: all but the first are reported.
duplicate_images(xs) ==
    {i \in DOMAIN xs :
        /\ xs[i].hash # ""
        /\ \E j \in 1 .. i - 1 : xs[j].hash = xs[i].hash
        /\ \A j \in 1 .. i - 1 : xs[j].hash = xs[i].hash
                                   => image_identity(xs[j].url) # image_identity(xs[i].url)}

-----------------------------------------------------------------------------
\* The scores of an image.  Those of a duplicate are computed again from the
\* findings on itself, which the duplication is none of.

Less(codes, penalty) ==
    AtLeast0(100 - MapThenSumSet(LAMBDA c : penalty[c], codes \cap DOMAIN penalty))

image_scores(x, codes) ==
    LET accessibility == Less(codes, [IMG_ALT_MISSING |-> 50, IMG_ALT_MISUSED |-> 30,
                                      IMG_ALT_TOO_SHORT |-> 15, IMG_ALT_TOO_LONG |-> 10,
                                      IMG_ALT_GENERIC |-> 20, IMG_ALT_DUP_FILENAME |-> 15])
        performance == IF x.file_size = Unknown THEN 0
                       ELSE Less(codes, [IMG_OVERSIZED |-> 30, IMG_SLOW_LOAD |-> 25,
                                         IMG_POOR_COMPRESSION |-> 20, IMG_OVERSCALED |-> 15,
                                         IMG_FORMAT_LEGACY |-> 10])
        sized == x.width # Unknown /\ x.height # Unknown
        technical == IF ~sized THEN Unknown
                     ELSE Less(codes, [IMG_BROKEN |-> 50, IMG_NO_SRCSET |-> 20,
                                       IMG_DUPLICATE_CONTENT |-> 15])
        weight == 50 + (IF x.file_size # Unknown THEN 30 ELSE 0) + (IF sized THEN 20 ELSE 0)
    IN [accessibility |-> accessibility, performance |-> performance, technical |-> technical,
        \* in tenths
        overall |-> RoundDiv(10 * (30 * accessibility + 20 * 100
                                   + (IF x.file_size # Unknown THEN 30 * performance ELSE 0)
                                   + (IF sized THEN 20 * technical ELSE 0)), weight)]

\* The findings of a batch name the image on the page it was first seen on.
analyze_batch(xs, limit) ==
    LET row(c, i) == [make_issue(c, xs[i].page) EXCEPT !.target = xs[i].url.id] IN
    UNION {{row(c, i) : c \in analyze_image(xs[i], limit)} : i \in DOMAIN xs}
    \cup {row("IMG_DUPLICATE_CONTENT", i) : i \in duplicate_images(xs)}

image_phase(seen, answers, limit) ==
    LET queue == image_data_queue(seen)
        chosen == measured_images(queue, answers)
        xs == [k \in DOMAIN queue |->
                 ImageInfo(queue[k], answers[queue[k].url.id], queue[k].url.id \in chosen)]
    IN [images |-> [k \in DOMAIN xs |-> xs[k] @@ image_scores(xs[k], analyze_image(xs[k], limit))],
        findings |-> analyze_batch(xs, limit)]

=============================================================================
