---------------------------- MODULE ImageEnrichment ---------------------------
(***************************************************************************)
(* ImageEnrichmentService in one worker task, which serves one request     *)
(* after another.  A picture is [url, display, row]: display tells a line  *)
(* of a forward's display text from an image segment, row is the message   *)
(* row it is in.  Two urls may carry one resource key (a renewed rkey) and *)
(* two keys one content.                                                   *)
(***************************************************************************)
EXTENDS Integers, FiniteSets, Sequences, Functions

CONSTANTS
    Key,       \* image_resource_key of each url
    Content,   \* what is behind each key, as far as QQ still serves it
    MaxImages  \* max_forward_display_images

ASSUME PictureAssumption ==
    /\ MaxImages \in Nat \ {0}
    /\ Range(Key) \subseteq DOMAIN Content

\* What goes wrong between the URL and a description, and what else is noted in
\* place of one.  The names of contents are others: only then can a property
\* tell a description from a note.
Reasons == {"download", "validation", "vision"}
Notes == Reasons \cup {"over_limit", "used_up", "unavailable"}
ASSUME ContentAssumption == Range(Content) \cap Notes = {}

VARIABLES
    scope,    \* the context variable: the group and batch of a request_scope
    batch,    \* the _DisplayBatch of a call outside a scope
    work,     \* the pictures enrich_messages still has to reach, in order
    results,  \* this request's pictures with their descriptions
    fetched,  \* keys of the display pictures this request downloaded, in order
    serial    \* number of the request

pictureVars == <<scope, batch, work, results, fetched, serial>>

EmptyMap == [x \in {} |-> x]
NewBatch == [byUrl |-> EmptyMap, successes |-> EmptyMap, byContent |-> EmptyMap,
             attempts |-> EmptyMap]
NoScope == [group |-> "none", batch |-> NewBatch]

Put(f, x, y) == [z \in DOMAIN f \cup {x} |-> IF z = x THEN y ELSE f[z]]

PicturesInit ==
    /\ scope = NoScope
    /\ batch = NewBatch
    /\ work = <<>>
    /\ results = <<>>
    /\ fetched = <<>>
    /\ serial = 0

EnterScope(group) == scope' = [group |-> group, batch |-> NewBatch]
\* Mutant: the context variable is not reset.
ExitScopeLate == UNCHANGED scope
ExitScope == scope' = NoScope

\* Mutant: every call has a batch of its own.
ScopedNever(group) == FALSE
Scoped(group) == scope.group = group
BatchFor(group) == IF Scoped(group) THEN scope.batch ELSE batch
Keep(group, b) ==
    IF Scoped(group) THEN scope' = [scope EXCEPT !.batch = b] /\ UNCHANGED batch
    ELSE batch' = b /\ UNCHANGED scope

\* enrich_messages begins with the pictures of its messages.
BeginCall(pictures) ==
    /\ work' = pictures
    /\ batch' = NewBatch

Note(text) == [of |-> text, by |-> serial]

Describe(text) ==
    /\ results' = Append(results, [picture |-> work[1], text |-> text])
    /\ work' = Tail(work)

\* The branches of _describe_display for one line.  Mutant: an answer kept for
\* the url is preferred to a description found since.
KnownByUrlFirst(b, url) ==
    IF url \in DOMAIN b.byUrl THEN <<b.byUrl[url]>>
    ELSE IF Key[url] \in DOMAIN b.successes THEN <<b.successes[Key[url]]>>
    ELSE <<>>

Known(b, url) ==
    IF Key[url] \in DOMAIN b.successes THEN <<b.successes[Key[url]]>>
    ELSE IF url \in DOMAIN b.byUrl THEN <<b.byUrl[url]>>
    ELSE <<>>

OverLimit(b, url) ==
    Key[url] \notin DOMAIN b.attempts /\ Cardinality(DOMAIN b.attempts) >= MaxImages
Attempts(b, url) ==
    IF Key[url] \in DOMAIN b.attempts THEN b.attempts[Key[url]] ELSE 0
UsedUp(b, url) == Attempts(b, url) >= 2

Reuse(group) ==
    /\ work # <<>> /\ work[1].display
    /\ LET known == Known(BatchFor(group), work[1].url)
       IN  known # <<>> /\ Describe(known[1])
    /\ UNCHANGED <<scope, batch, fetched, serial>>

Refuse(group) ==
    /\ work # <<>> /\ work[1].display
    /\ LET b == BatchFor(group)
           url == work[1].url
       IN  /\ Known(b, url) = <<>>
           /\ \/ OverLimit(b, url) /\ Describe(Note("over_limit"))
              \/ UsedUp(b, url) /\ Describe(Note("used_up"))
    /\ UNCHANGED <<scope, batch, fetched, serial>>

Attempted(b, url) == [b EXCEPT !.attempts = Put(@, Key[url], Attempts(b, url) + 1)]

CanFetch(b, url) == Known(b, url) = <<>> /\ ~OverLimit(b, url) /\ ~UsedUp(b, url)

Digest(key) == Content[key]

\* _describe_display_image: resolve, validate, look the content up, describe.
FetchFails(group) ==
    /\ work # <<>> /\ work[1].display
    /\ LET b == BatchFor(group)
           url == work[1].url
       IN  /\ CanFetch(b, url)
           /\ \E why \in Reasons :
                 /\ why = "vision" => Digest(Key[url]) \notin DOMAIN b.byContent
                 /\ Describe(Note(why))
                 /\ Keep(group, [Attempted(b, url) EXCEPT
                                   !.byUrl = Put(@, url, Note(why))])
           /\ fetched' = Append(fetched, [key |-> Key[url], row |-> work[1].row])
    /\ UNCHANGED serial

FetchSucceeds(group) ==
    /\ work # <<>> /\ work[1].display
    /\ LET b == BatchFor(group)
           url == work[1].url
           key == Key[url]
           text == IF Digest(key) \in DOMAIN b.byContent
                   THEN b.byContent[Digest(key)] ELSE Note(Content[key])
       IN  /\ CanFetch(b, url)
           /\ Describe(text)
           /\ Keep(group, [Attempted(b, url) EXCEPT
                             !.byUrl = Put(@, url, text),
                             !.successes = Put(@, key, text),
                             !.byContent = Put(@, Digest(key), text)])
           /\ fetched' = Append(fetched, [key |-> key, row |-> work[1].row])
    /\ UNCHANGED serial

\* _describe: an image segment is fetched each time, outside any budget.
DescribeSegment ==
    /\ work # <<>> /\ ~work[1].display
    /\ \/ Describe(Note(Content[Key[work[1].url]]))
       \/ Describe(Note("unavailable"))
    /\ UNCHANGED <<scope, batch, fetched, serial>>

Enrich(group) ==
    \/ Reuse(group)
    \/ Refuse(group)
    \/ FetchFails(group)
    \/ FetchSucceeds(group)
    \/ DescribeSegment

(***************************************************************************)
(* Properties                                                              *)
(***************************************************************************)
Telling(text) == text.of \in Range(Content)

\* One request downloads at most MaxImages different display pictures, each at
\* most twice, however its quote, its history and failures divide the work.
FetchesBounded ==
    LET keys == {fetched[i].key : i \in DOMAIN fetched}
    IN  /\ Cardinality(keys) <= MaxImages
        /\ \A k \in keys : Cardinality({i \in DOMAIN fetched : fetched[i].key = k}) <= 2

\* A description belongs to the picture its URL names, and once a request has
\* described a picture every later occurrence shows that description, also
\* under a link that failed before.
DescriptionsAgree ==
    \A i \in DOMAIN results :
        LET r == results[i]
        IN  /\ Telling(r.text) => r.text.of = Content[Key[r.picture.url]]
            /\ r.picture.display /\ Telling(r.text) =>
                 \A j \in DOMAIN results :
                    /\ j > i
                    /\ results[j].picture.display
                    /\ Key[results[j].picture.url] = Key[r.picture.url]
                    => results[j].text = r.text

\* What a prompt says of a picture was found out for that request: nothing
\* outlives the scope, or passes from one group to another.
DescriptionsAreOwn == \A i \in DOMAIN results : results[i].text.by = serial
===============================================================================
