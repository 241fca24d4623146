------------------------------ MODULE CourseKb ------------------------------
(***************************************************************************)
(* The materials of one course and the knowledge base that the agents      *)
(* search.  The institute service keeps modules and contents as rows       *)
(* (CourseService for the teacher, ModuleContentService and                *)
(* CourseModuleService for the administrator) and asks the voice agent,    *)
(* without waiting for it, to index a file or to forget it.  The voice     *)
(* agent does so in threads of its own, point by point, in Qdrant.         *)
(*                                                                         *)
(* A request is split where it awaits the database.  A call to the voice   *)
(* agent may take effect at any later time: nothing orders two of them.    *)
(***************************************************************************)
EXTENDS Integers, FiniteSets, Functions

CONSTANTS
    Contents,       \* ids of contents; none is used twice
    Modules,        \* the modules of the course
    Docs,           \* files that can be indexed: the type and the URL of a content
    Batches,        \* Batches[d]: upserts that the text of d takes; 0 if it has none
    Plain,          \* the type and URL of anything else: a video, a link, an empty URL
    NoUrl,          \* in a row: a file without URL (null); in a request: url null, nothing else
    MaxRequests,    \* bound: requests made, numbered in the order in which they come
    Searches,       \* threads that search
    None,
    MaxFailures     \* bound: failed calls and requests that died

Items == Docs \union {Plain, NoUrl}
Requests == 1 .. MaxRequests

ASSUME KbAssumption ==
    /\ Batches \in [Docs -> Nat]
    /\ Plain \notin Docs /\ NoUrl \notin Docs \union {Plain}
    /\ None \notin Items /\ None \notin [module : Modules, item : Items]
    /\ MaxRequests \in Nat /\ MaxFailures \in Nat

VARIABLES
    course,     \* the row of the course exists
    modules,    \* the modules that exist
    content,    \* content[c]: the row of c, None if there is none
    used,       \* the contents that were ever created
    req,        \* req[r]: a request in flight; the contents it is about, as it read them, in seen
    job,        \* job[r][c]: what request r asked the voice agent to do about c
    points,     \* points[c][n]: the file whose nth batch of points is stored for c
    cache,      \* _search_cache: the answer to a query, None if there is no live one
    found,      \* found[s]: what search s has read and not yet cached
    settled,    \* history: the contents whose requests never met, failed, were cut short or
                \* left a file without its URL
    alone,      \* history: the requests that met no other one about the same content
    failures

rows == <<course, modules, content, used>>
searching == <<cache, found>>
observed == <<settled, alone, failures>>
vars == <<rows, req, job, points, searching, observed>>

isIndexable(item) == item \in Docs

Jobs == [op : {"none", "index", "delete"}, doc : Docs \union {None}, next : Nat]
NoJob == [op |-> "none", doc |-> None, next |-> 0]
Index(d) == [op |-> "index", doc |-> d, next |-> 0]
Delete == [op |-> "delete", doc |-> None, next |-> 0]

Positions == UNION {1 .. Batches[d] : d \in Docs}
NoPoints == [n \in Positions |-> None]
PointsOf(item) ==
    [n \in Positions |-> IF isIndexable(item) /\ n <= Batches[item] THEN item ELSE None]

\* The row says so, or c has none
ItemOf(c) == IF content[c] = None THEN Plain ELSE content[c].item

NoRequest == [op |-> "none", by |-> None, step |-> "idle", module |-> None,
              item |-> Plain, seen |-> <<>>, call |-> NoJob]
Finished == [NoRequest EXCEPT !.step = "done"]

Init ==
    /\ course = TRUE /\ modules = Modules
    /\ content = [c \in Contents |-> None] /\ used = {}
    /\ req = [r \in Requests |-> NoRequest]
    /\ job = [r \in Requests |-> [c \in Contents |-> NoJob]]
    /\ points = [c \in Contents |-> NoPoints]
    /\ cache = None /\ found = [s \in Searches |-> None]
    /\ settled = Contents /\ alone = {} /\ failures = 0

-----------------------------------------------------------------------------
(* Requests meet when both are about one content. *)

InFlight(r) == req[r].step \notin {"idle", "done"}

Deletes(m) == {r \in Requests : req[r].op = "deleteModule" /\ req[r].module = m}
Creates(m) == {r \in Requests : req[r].op = "create" /\ req[r].module = m}

\* The contents of a module, and those that are being created in it
ContentsOf(m) ==
    {c \in Contents : content[c] # None /\ content[c].module = m}
        \union UNION {DOMAIN req[r].seen : r \in Creates(m)}

WorksOn(r, c) ==
    \/ c \in DOMAIN req[r].seen \/ job[r][c] # NoJob
    \/ req[r].op = "deleteModule" /\ c \in ContentsOf(req[r].module)

Busy(c) == \E r \in Requests : WorksOn(r, c)

\* A request whose row was read starts; the contents in C are what it is about
Starts(r, C, others) ==
    /\ settled' = settled \ {c \in C : Busy(c) \/ others # {}}
    /\ LET met == {q \in Requests : \E c \in C : WorksOn(q, c)} \union others
       IN  alone' = (alone \ met) \union (IF met = {} THEN {r} ELSE {})

Request(r, op, by, module, item, seen) ==
    /\ course /\ req[r] = NoRequest /\ \A q \in Requests : q < r => req[q] # NoRequest
    /\ req' = [req EXCEPT ![r] = [op |-> op, by |-> by, step |-> "write", module |-> module,
                                  item |-> item, seen |-> seen, call |-> NoJob]]
    /\ UNCHANGED <<rows, job, points, searching, failures>>

Done(r) == req' = [req EXCEPT ![r] = Finished]

\* The call that a change of c from one item to another asks for
Asked(changed, before, after) ==
    IF isIndexable(after) /\ changed THEN Index(after)
    ELSE IF isIndexable(before) /\ ~isIndexable(after) THEN Delete
    ELSE NoJob

\* The teacher's handler calls the voice agent at once, the administrator's reads the course
\* first
Sends(r, c, call) ==
    IF req[r].by = "teacher" \/ call = NoJob
    THEN Done(r) /\ job' = [job EXCEPT ![r][c] = call]
    ELSE req' = [req EXCEPT ![r].step = "queue", ![r].call = call] /\ UNCHANGED job

-----------------------------------------------------------------------------
(* The institute service *)

Callers == {"teacher", "admin"}

create(r, c) ==
    \E by \in Callers, m \in modules, item \in Items :
        /\ c \notin used /\ ~Busy(c)
        /\ Request(r, "create", by, m, item, [x \in {c} |-> Plain])
        /\ Starts(r, {c}, Deletes(m))

\* The module may be gone: the insert fails
CreateWrite(r, c) ==
    /\ req[r].op = "create" /\ req[r].step = "write" /\ c \in DOMAIN req[r].seen
    /\ IF req[r].module \in modules
       THEN /\ content' = [content EXCEPT ![c] = [module |-> req[r].module, item |-> req[r].item]]
            /\ used' = used \union {c}
            /\ Sends(r, c, Asked(TRUE, Plain, req[r].item))
       ELSE Done(r) /\ UNCHANGED <<content, used, job>>
    /\ UNCHANGED <<course, modules, points, searching, observed>>

update(r, c) ==
    \E by \in Callers, item \in Items :
        /\ content[c] # None
        /\ Request(r, "update", by, content[c].module, item, [x \in {c} |-> content[c].item])
        /\ Starts(r, {c}, {})

\* What a request makes of a row.  A null URL leaves the type, which Plain does not tell.
Written(item, before) ==
    IF item # NoUrl THEN {item} ELSE {NoUrl} \union ({before} \intersect {Plain})

\* What to ask for is decided from the row as it was read.  The teacher's handler compares it
\* with the request; a null URL counts as the one that was read, whose file is indexed again.
UpdateWrite(r, c) ==
    LET before == req[r].seen[c]
        item == req[r].item
    IN  /\ req[r].op = "update" /\ req[r].step = "write" /\ c \in DOMAIN req[r].seen
        /\ IF content[c] = None THEN UNCHANGED content
           ELSE \E now \in Written(item, content[c].item) : content' = [content EXCEPT ![c].item = now]
        /\ IF req[r].by = "teacher"
           THEN Sends(r, c, Asked(item # before, before, IF item = NoUrl THEN before ELSE item))
           ELSE req' = [req EXCEPT ![r].step = "reread"] /\ UNCHANGED job
        /\ IF item = NoUrl /\ isIndexable(before)
           THEN settled' = settled \ {c} /\ alone' = alone \ {r}
           ELSE UNCHANGED <<settled, alone>>
        /\ UNCHANGED <<course, modules, used, points, searching, failures>>

\* The administrator's compares it with the row as it is now, and fails without one.  When
\* that has no URL the one that was read counts: nothing is deleted, and a call, which would
\* carry no URL, is refused.
UpdateReread(r, c) ==
    /\ req[r].op = "update" /\ req[r].step = "reread" /\ c \in DOMAIN req[r].seen
    /\ IF content[c] = None \/ ItemOf(c) = NoUrl THEN Done(r) /\ UNCHANGED job
       ELSE Sends(r, c, Asked(req[r].item # req[r].seen[c], req[r].seen[c], content[c].item))
    /\ UNCHANGED <<rows, points, searching, observed>>

remove(r, c) ==
    \E by \in Callers :
        /\ content[c] # None
        /\ Request(r, "remove", by, content[c].module, Plain, [x \in {c} |-> content[c].item])
        /\ Starts(r, {c}, {})

RemoveWrite(r, c) ==
    /\ req[r].op = "remove" /\ req[r].step = "write" /\ c \in DOMAIN req[r].seen
    /\ content' = [content EXCEPT ![c] = None]
    /\ Sends(r, c, Asked(TRUE, req[r].seen[c], Plain))
    /\ UNCHANGED <<course, modules, used, points, searching, observed>>

\* queueKbIndex, _deleteFromKb: nothing is asked for when the course is gone
queueKbIndex(r, c) ==
    /\ req[r].step = "queue" /\ c \in DOMAIN req[r].seen
    /\ Done(r)
    /\ job' = IF course THEN [job EXCEPT ![r][c] = req[r].call] ELSE job
    /\ UNCHANGED <<rows, points, searching, observed>>

\* The contents of the module are listed before it is deleted
deleteModule(r, m) ==
    LET listed == {c \in Contents : content[c] # None /\ content[c].module = m}
    IN  /\ m \in modules
        /\ Request(r, "deleteModule", "teacher", m, Plain, [c \in listed |-> content[c].item])
        /\ Starts(r, ContentsOf(m), Deletes(m))

\* The rows of its contents go with it, the listed ones and those that came since
DeleteModuleWrite(r) ==
    /\ req[r].op = "deleteModule" /\ req[r].step = "write"
    /\ modules' = modules \ {req[r].module}
    /\ content' = [c \in Contents |->
                    IF content[c] # None /\ content[c].module = req[r].module THEN None ELSE content[c]]
    /\ job' = [job EXCEPT ![r] = [c \in Contents |->
                    IF c \in DOMAIN req[r].seen /\ isIndexable(req[r].seen[c]) THEN Delete ELSE NoJob]]
    /\ Done(r)
    /\ UNCHANGED <<course, used, points, searching, observed>>

\* The voice agent is not told
deleteCourse ==
    /\ course
    /\ course' = FALSE /\ modules' = {}
    /\ content' = [c \in Contents |-> None]
    /\ settled' = {} /\ alone' = {}
    /\ UNCHANGED <<used, req, job, points, searching, failures>>

\* A request dies, by a failed query or with its process
Abort(r) ==
    /\ InFlight(r) /\ failures < MaxFailures
    /\ Done(r) /\ failures' = failures + 1
    /\ IF req[r].step = "write" THEN UNCHANGED <<settled, alone>>
       ELSE settled' = settled \ DOMAIN req[r].seen /\ alone' = alone \ {r}
    /\ UNCHANGED <<rows, job, points, searching>>

-----------------------------------------------------------------------------
(* The voice agent *)

Ends(r, c) == job' = [job EXCEPT ![r][c] = NoJob]

\* A job that met no other one leaves the knowledge base as the row says
Settles(r, c, good) ==
    /\ settled' = IF good /\ (c \in settled \/ r \in alone) THEN settled \union {c} ELSE settled \ {c}
    /\ alone' = IF \E x \in Contents \ {c} : job[r][x] # NoJob THEN alone ELSE alone \ {r}
    /\ UNCHANGED failures

\* Nothing was extracted, and what is stored stays
IndexNothing(r, c) ==
    /\ job[r][c].op = "index" /\ Batches[job[r][c].doc] = 0
    /\ Ends(r, c) /\ Settles(r, c, points[c] = NoPoints)
    /\ UNCHANGED <<rows, req, points, searching>>

IndexClearKeeps(r, c) ==
    /\ job[r][c].op = "index" /\ job[r][c].next = 0 /\ Batches[job[r][c].doc] > 0
    /\ job' = [job EXCEPT ![r][c].next = 1]
    /\ UNCHANGED <<rows, req, points, searching, observed>>

\* The file was downloaded, its text embedded; the stored points are deleted.
\* That this fails is ignored.
IndexClear(r, c) ==
    /\ job[r][c].op = "index" /\ job[r][c].next = 0 /\ Batches[job[r][c].doc] > 0
    /\ job' = [job EXCEPT ![r][c].next = 1]
    /\ \/ points' = [points EXCEPT ![c] = NoPoints] /\ UNCHANGED observed
       \/ /\ failures < MaxFailures /\ failures' = failures + 1
          /\ settled' = settled \ {c} /\ alone' = alone \ {r}
          /\ UNCHANGED points
    /\ UNCHANGED <<rows, req, searching>>

IndexPut(r, c) ==
    LET j == job[r][c]
        last == j.next = Batches[j.doc]
    IN  /\ j.op = "index" /\ j.next > 0
        /\ points' = [points EXCEPT ![c][j.next] = j.doc]
        /\ IF last THEN Ends(r, c) /\ Settles(r, c, TRUE)
           ELSE job' = [job EXCEPT ![r][c].next = j.next + 1] /\ UNCHANGED observed
        /\ UNCHANGED <<rows, req, searching>>

delete_content(r, c) ==
    /\ job[r][c].op = "delete"
    /\ points' = [points EXCEPT ![c] = NoPoints]
    /\ Ends(r, c) /\ Settles(r, c, TRUE)
    /\ UNCHANGED <<rows, req, searching>>

\* The call did not arrive, the download or a request to Qdrant failed, or the process died
JobFails(r, c) ==
    /\ job[r][c] # NoJob /\ failures < MaxFailures
    /\ Ends(r, c) /\ failures' = failures + 1
    /\ settled' = settled \ {c} /\ alone' = alone \ {r}
    /\ UNCHANGED <<rows, req, points, searching>>

Hits == {<<c, points[c][n]>> : c \in Contents, n \in Positions} \ (Contents \X {None})

\* What a search answers now
Answer == IF cache # None THEN cache ELSE Hits

search_course(s) ==
    /\ cache = None /\ found[s] = None
    /\ found' = [found EXCEPT ![s] = Hits]
    /\ UNCHANGED <<rows, req, job, points, cache, observed>>

_cache_set(s) ==
    /\ found[s] # None
    /\ cache' = found[s]
    /\ found' = [found EXCEPT ![s] = None]
    /\ UNCHANGED <<rows, req, job, points, observed>>

CacheExpiresUnlessEmpty ==
    /\ cache # None /\ cache # {}
    /\ cache' = None
    /\ UNCHANGED <<rows, req, job, points, found, observed>>

CacheExpires ==
    /\ cache # None
    /\ cache' = None
    /\ UNCHANGED <<rows, req, job, points, found, observed>>
-----------------------------------------------------------------------------
Proceeds(r, c) ==
    CreateWrite(r, c) \/ UpdateWrite(r, c) \/ UpdateReread(r, c) \/ RemoveWrite(r, c) \/ queueKbIndex(r, c)

Works(r, c) == IndexNothing(r, c) \/ IndexClear(r, c) \/ IndexPut(r, c) \/ delete_content(r, c)

Next ==
    \/ \E r \in Requests, c \in Contents :
        create(r, c) \/ update(r, c) \/ remove(r, c) \/ Proceeds(r, c) \/ Works(r, c) \/ JobFails(r, c)
    \/ \E r \in Requests, m \in Modules : deleteModule(r, m)
    \/ \E r \in Requests : DeleteModuleWrite(r) \/ Abort(r)
    \/ deleteCourse
    \/ \E s \in Searches : search_course(s) \/ _cache_set(s)
    \/ CacheExpires

\* Some handler or job goes on as long as there is one, searches come to their end and the
\* clock runs; nobody has to ask for anything
System == \E r \in Requests : DeleteModuleWrite(r) \/ \E c \in Contents : Proceeds(r, c) \/ Works(r, c)

Fairness == WF_vars(System) /\ (\A s \in Searches : WF_vars(_cache_set(s))) /\ WF_vars(CacheExpires)

Spec == Init /\ [][Next]_vars

FairSpec == Spec /\ Fairness

-----------------------------------------------------------------------------
(* Properties *)

TypeOK ==
    /\ course \in BOOLEAN /\ modules \subseteq Modules
    /\ content \in [Contents -> [module : Modules, item : Items] \union {None}]
    /\ used \subseteq Contents
    /\ req \in [Requests -> [op : {"none", "create", "update", "remove", "deleteModule"},
                            by : Callers \union {None},
                            step : {"idle", "write", "reread", "queue", "done"},
                            module : Modules \union {None}, item : Items, call : Jobs,
                            seen : UNION {[C -> Items] : C \in SUBSET Contents}]]
    /\ job \in [Requests -> [Contents -> Jobs]]
    /\ points \in [Contents -> [Positions -> Docs \union {None}]]
    /\ cache \in (SUBSET (Contents \X Docs)) \union {None}
    /\ found \in [Searches -> (SUBSET (Contents \X Docs)) \union {None}]
    /\ settled \subseteq Contents /\ alone \subseteq Requests /\ failures \in 0 .. MaxFailures

\* As long as the requests about a content do not meet, nothing of them fails and none leaves
\* a file without its URL or replaces it by one without text, for then the old one stays, or
\* once one of them has again run alone to its end, the knowledge base holds the whole of the
\* file in its row and nothing of any other, for a content deleted with its module too
\* (course.service.ts:185-199, 230-247, 306-344, 358-367, module-content.service.ts:120-144,
\* course_kb.py:321-384).
KbFollowsRows ==
    \A c \in settled : ~Busy(c) => points[c] = PointsOf(ItemOf(c))

HasText(item) == isIndexable(item) /\ Batches[item] > 0

Current(answer, c) ==
    {hit[2] : hit \in {h \in answer : h[1] = c}} = IF HasText(ItemOf(c)) THEN {ItemOf(c)} ELSE {}

\* In the end a search finds the file of a content for which the knowledge base follows its
\* row, as above, and no older one, and nothing of such a content once deleted, although
\* answers are kept for five minutes and a search under way may still store one
\* (docs/FEATURES.md:70, course_kb.py:74, 522-526, 578).
AnswersCatchUp ==
    \A c \in Contents :
        (c \in settled) ~>
            \/ c \notin settled
            \/ Current(Answer, c) /\ \A s \in Searches : found[s] # None => Current(found[s], c)

=============================================================================
