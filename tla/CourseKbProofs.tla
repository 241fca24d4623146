--------------------------- MODULE CourseKbProofs ---------------------------
(***************************************************************************)
(* Proofs about CourseKb, for any contents, files, requests and failures.  *)
(***************************************************************************)
EXTENDS CourseKb, TLAPS

Seen == UNION {[C -> Items] : C \in SUBSET Contents}

ReqRecord == [op : {"none", "create", "update", "remove", "deleteModule"},
              by : Callers \union {None}, step : {"idle", "write", "reread", "queue", "done"},
              module : Modules \union {None}, item : Items, call : Jobs, seen : Seen]

LEMMA JobTypes ==
    /\ NoJob \in Jobs /\ Delete \in Jobs
    /\ \A d \in Docs : Index(d) \in Jobs
BY DEF Jobs, NoJob, Delete, Index

LEMMA AskedType ==
    ASSUME NEW changed, NEW before, NEW after
    PROVE  Asked(changed, before, after) \in Jobs
BY JobTypes DEF Asked, isIndexable

LEMMA EmptySeen == <<>> \in Seen
<1>1. <<>> \in [{} -> Items]
  OBVIOUS
<1> QED
  BY <1>1 DEF Seen

LEMMA RecordTypes == NoRequest \in ReqRecord /\ Finished \in ReqRecord
BY EmptySeen, JobTypes DEF NoRequest, Finished, ReqRecord, Items

LEMMA DoneType ==
    ASSUME TypeOK, NEW r \in Requests, Done(r)
    PROVE  req' \in [Requests -> ReqRecord]
BY RecordTypes DEF TypeOK, ReqRecord, Seen, Done

LEMMA SendsType ==
    ASSUME TypeOK, NEW r \in Requests, NEW c \in Contents, NEW call \in Jobs, Sends(r, c, call)
    PROVE  req' \in [Requests -> ReqRecord] /\ job' \in [Requests -> [Contents -> Jobs]]
<1>1. req \in [Requests -> ReqRecord]
  BY DEF TypeOK, ReqRecord, Seen
<1>2. CASE Done(r) /\ job' = [job EXCEPT ![r][c] = call]
  BY <1>2, DoneType DEF TypeOK
<1>3. CASE req' = [req EXCEPT ![r].step = "queue", ![r].call = call] /\ UNCHANGED job
  <2>1. [req[r] EXCEPT !.step = "queue", !.call = call] \in ReqRecord
    BY <1>1 DEF ReqRecord
  <2>2. req' = [req EXCEPT ![r] = [req[r] EXCEPT !.step = "queue", !.call = call]]
    BY <1>1, <1>3 DEF ReqRecord
  <2> QED
    BY <1>1, <1>3, <2>1, <2>2 DEF TypeOK
<1> QED
  BY <1>2, <1>3 DEF Sends

LEMMA RequestType ==
    ASSUME TypeOK, NEW r \in Requests, NEW op \in {"create", "update", "remove", "deleteModule"},
           NEW by \in Callers, NEW m \in Modules, NEW C \in SUBSET Contents, NEW item \in Items,
           NEW seen \in Seen, NEW others,
           Request(r, op, by, m, item, seen), Starts(r, C, others)
    PROVE  TypeOK'
<1>1. [op |-> op, by |-> by, step |-> "write", module |-> m, item |-> item,
       seen |-> seen, call |-> NoJob] \in ReqRecord
  BY JobTypes DEF ReqRecord
<1>2. req' \in [Requests -> ReqRecord]
  BY <1>1 DEF TypeOK, ReqRecord, Seen, Request
<1>3. settled' \subseteq Contents /\ alone' \subseteq Requests
  BY DEF TypeOK, Starts
<1> QED
  BY <1>2, <1>3 DEF TypeOK, ReqRecord, Seen, Request, rows, searching

Row == [module : Modules, item : Items]

THEOREM TypeInit == Init => TypeOK
<1> SUFFICES ASSUME Init PROVE TypeOK
  OBVIOUS
<1>1. req \in [Requests -> ReqRecord] /\ job \in [Requests -> [Contents -> Jobs]]
  BY RecordTypes, JobTypes DEF Init
<1>2. points \in [Contents -> [Positions -> Docs \union {None}]]
  BY DEF Init, NoPoints
<1>3. failures \in 0 .. MaxFailures
  BY KbAssumption DEF Init
<1>4. /\ course \in BOOLEAN /\ modules \subseteq Modules /\ used \subseteq Contents
      /\ content \in [Contents -> Row \union {None}]
      /\ cache = None /\ found \in [Searches -> {None}]
      /\ settled \subseteq Contents /\ alone \subseteq Requests
  BY DEF Init
<1> QED
  BY <1>1, <1>2, <1>3, <1>4 DEF TypeOK, ReqRecord, Seen, Row

LEMMA SettlesType ==
    ASSUME TypeOK, NEW r \in Requests, NEW c \in Contents, NEW good, Ends(r, c), Settles(r, c, good)
    PROVE  /\ job' \in [Requests -> [Contents -> Jobs]]
           /\ settled' \subseteq Contents /\ alone' \subseteq Requests /\ failures' \in 0 .. MaxFailures
BY JobTypes DEF TypeOK, Ends, Settles

LEMMA SeenOne ==
    ASSUME NEW c \in Contents, NEW item \in Items
    PROVE  [x \in {c} |-> item] \in Seen
<1>1. [x \in {c} |-> item] \in [{c} -> Items] /\ {c} \in SUBSET Contents
  OBVIOUS
<1> QED
  BY <1>1 DEF Seen

LEMMA SeenItem ==
    ASSUME TypeOK, NEW r \in Requests, NEW c \in DOMAIN req[r].seen
    PROVE  c \in Contents /\ req[r].seen[c] \in Items
<1>1. req[r].seen \in Seen
  BY DEF TypeOK, Seen
<1>2. PICK C \in SUBSET Contents : req[r].seen \in [C -> Items]
  BY <1>1 DEF Seen
<1> QED
  BY <1>2

LEMMA PointsTypes ==
    /\ NoPoints \in [Positions -> Docs \union {None}]
    /\ \A item \in Items : PointsOf(item) \in [Positions -> Docs \union {None}]
BY DEF NoPoints, PointsOf, isIndexable

\* A request starts: type correctness
LEMMA TypeStart ==
    ASSUME TypeOK, NEW r \in Requests,
           \/ \E c \in Contents : create(r, c) \/ update(r, c) \/ remove(r, c)
           \/ \E m \in Modules : deleteModule(r, m)
    PROVE  TypeOK'
<1>1. ASSUME NEW c \in Contents, create(r, c) PROVE TypeOK'
  <2>1. PICK by \in Callers, m \in modules, item \in Items :
           /\ Request(r, "create", by, m, item, [x \in {c} |-> Plain])
           /\ Starts(r, {c}, Deletes(m))
    BY <1>1 DEF create
  <2>2. [x \in {c} |-> Plain] \in Seen
    BY SeenOne DEF Items
  <2>3. m \in Modules
    BY DEF TypeOK
  <2> QED
    BY <2>1, <2>2, <2>3, RequestType
<1>2. ASSUME NEW c \in Contents, update(r, c) PROVE TypeOK'
  <2>1. PICK by \in Callers, item \in Items :
           /\ content[c] # None
           /\ Request(r, "update", by, content[c].module, item, [x \in {c} |-> content[c].item])
           /\ Starts(r, {c}, {})
    BY <1>2 DEF update
  <2>2. content[c].item \in Items /\ content[c].module \in Modules
    BY <2>1 DEF TypeOK
  <2>3. [x \in {c} |-> content[c].item] \in Seen
    BY <2>2, SeenOne
  <2> QED
    BY <2>1, <2>2, <2>3, RequestType
<1>3. ASSUME NEW c \in Contents, remove(r, c) PROVE TypeOK'
  <2>1. PICK by \in Callers :
           /\ content[c] # None
           /\ Request(r, "remove", by, content[c].module, Plain, [x \in {c} |-> content[c].item])
           /\ Starts(r, {c}, {})
    BY <1>3 DEF remove
  <2>2. content[c].item \in Items /\ content[c].module \in Modules /\ Plain \in Items
    BY <2>1 DEF TypeOK, Items
  <2>3. [x \in {c} |-> content[c].item] \in Seen
    BY <2>2, SeenOne
  <2> QED
    BY <2>1, <2>2, <2>3, RequestType
<1>4. ASSUME NEW m \in Modules, deleteModule(r, m) PROVE TypeOK'
  <2> DEFINE listed == {c \in Contents : content[c] # None /\ content[c].module = m}
             seen == [c \in listed |-> content[c].item]
  <2>1. Request(r, "deleteModule", "teacher", m, Plain, seen) /\ Starts(r, ContentsOf(m), Deletes(m))
    BY <1>4 DEF deleteModule
  <2>2. seen \in [listed -> Items] /\ listed \in SUBSET Contents
    BY DEF TypeOK
  <2>3. seen \in Seen
    BY <2>2 DEF Seen
  <2>4. Plain \in Items /\ "teacher" \in Callers
    BY DEF Items, Callers
  <2>5. ContentsOf(m) \in SUBSET Contents
    <3>1. ASSUME NEW q \in Requests, NEW c \in DOMAIN req[q].seen PROVE c \in Contents
      BY <3>1, SeenItem
    <3> QED
      BY <3>1 DEF ContentsOf, Creates
  <2> HIDE DEF seen
  <2> QED
    BY <2>1, <2>3, <2>4, <2>5, RequestType
<1> QED
  BY <1>1, <1>2, <1>3, <1>4

\* What a request makes of a row: the same file, or none
LEMMA WrittenItems ==
    ASSUME NEW item \in Items, NEW before \in Items, NEW now \in Written(item, before)
    PROVE  /\ now \in Items
           /\ item # NoUrl => now = item
           /\ item = NoUrl => ~isIndexable(now) /\ (now = NoUrl \/ (now = Plain /\ before = Plain))
<1>1. NoUrl \in Items /\ Plain \in Items /\ ~isIndexable(NoUrl) /\ ~isIndexable(Plain)
  BY KbAssumption DEF Items, isIndexable
<1> QED
  BY <1>1 DEF Written

LEMMA TypeProceed ==
    ASSUME TypeOK, NEW r \in Requests, NEW c \in Contents, Proceeds(r, c)
    PROVE  TypeOK'
<1>0. /\ content \in [Contents -> Row \union {None}]
      /\ req \in [Requests -> ReqRecord] /\ Plain \in Items
      /\ job \in [Requests -> [Contents -> Jobs]]
  BY DEF TypeOK, Row, ReqRecord, Seen, Items
<1>s. settled' \subseteq Contents /\ alone' \subseteq Requests
  BY DEF Proceeds, CreateWrite, UpdateWrite, UpdateReread, RemoveWrite, queueKbIndex, observed, TypeOK
<1>a. SUFFICES /\ content' \in [Contents -> Row \union {None}] /\ used' \subseteq Contents
               /\ req' \in [Requests -> ReqRecord] /\ job' \in [Requests -> [Contents -> Jobs]]
  BY <1>s DEF Proceeds, CreateWrite, UpdateWrite, UpdateReread, RemoveWrite, queueKbIndex, rows,
         searching, observed, TypeOK, Row, ReqRecord, Seen
<1>b. \A call \in Jobs : Sends(r, c, call) =>
        req' \in [Requests -> ReqRecord] /\ job' \in [Requests -> [Contents -> Jobs]]
  BY SendsType
<1>d. Done(r) => req' \in [Requests -> ReqRecord]
  BY DoneType
<1>e. \A changed, before, after : Asked(changed, before, after) \in Jobs
  BY AskedType
<1>1. CASE CreateWrite(r, c)
  <2>1. CASE req[r].module \in modules
    <3>1. /\ content' = [content EXCEPT ![c] = [module |-> req[r].module, item |-> req[r].item]]
          /\ used' = used \union {c} /\ Sends(r, c, Asked(TRUE, Plain, req[r].item))
          /\ req[r].op = "create" /\ req[r].step = "write"
      BY <1>1, <2>1 DEF CreateWrite
    <3>2. req[r].module \in Modules
      BY <2>1 DEF TypeOK
    <3>3. req[r].item \in Items
      BY <1>0, <3>1 DEF ReqRecord
    <3> QED
      BY <1>0, <1>b, <1>e, <3>1, <3>2, <3>3 DEF Row, TypeOK
  <2>2. CASE req[r].module \notin modules
    BY <1>0, <1>1, <1>d, <2>2 DEF CreateWrite, TypeOK
  <2> QED
    BY <2>1, <2>2
<1>2. CASE UpdateWrite(r, c)
  <2>1. content' \in [Contents -> Row \union {None}]
    <3>1. CASE content[c] = None
      BY <1>0, <1>2, <3>1 DEF UpdateWrite
    <3>2. CASE content[c] # None
      <4>1. content[c] \in Row /\ req[r].item \in Items
        BY <1>0, <3>2 DEF ReqRecord
      <4>2. PICK now \in Written(req[r].item, content[c].item) : content' = [content EXCEPT ![c].item = now]
        BY <1>2, <3>2 DEF UpdateWrite
      <4>3. now \in Items
        BY <4>1, WrittenItems DEF Row
      <4>4. [content[c] EXCEPT !.item = now] \in Row
        BY <4>1, <4>3 DEF Row
      <4>5. content' = [content EXCEPT ![c] = [content[c] EXCEPT !.item = now]]
        BY <1>0, <4>2
      <4> QED
        BY <1>0, <4>4, <4>5
    <3> QED
      BY <3>1, <3>2
  <2>2. CASE req[r].by = "teacher"
    BY <1>2, <1>b, <1>e, <2>1, <2>2 DEF UpdateWrite, TypeOK
  <2>3. CASE req[r].by # "teacher"
    <3>1. [req[r] EXCEPT !.step = "reread"] \in ReqRecord
      BY <1>0 DEF ReqRecord
    <3>2. req' = [req EXCEPT ![r] = [req[r] EXCEPT !.step = "reread"]]
      BY <1>0, <1>2, <2>3 DEF UpdateWrite
    <3> QED
      BY <1>0, <1>2, <2>1, <2>3, <3>1, <3>2 DEF UpdateWrite, TypeOK
  <2> QED
    BY <2>2, <2>3
<1>3. CASE UpdateReread(r, c)
  <2>1. CASE content[c] = None \/ ItemOf(c) = NoUrl
    BY <1>0, <1>3, <1>d, <2>1 DEF UpdateReread, rows, TypeOK
  <2>2. CASE ~(content[c] = None \/ ItemOf(c) = NoUrl)
    BY <1>0, <1>3, <1>b, <1>e, <2>2 DEF UpdateReread, rows, TypeOK
  <2> QED
    BY <2>1, <2>2
<1>4. CASE RemoveWrite(r, c)
  BY <1>0, <1>4, <1>b, <1>e DEF RemoveWrite, TypeOK
<1>5. CASE queueKbIndex(r, c)
  <2>1. req[r].call \in Jobs
    BY <1>0 DEF ReqRecord
  <2> QED
    BY <1>0, <1>5, <1>d, <2>1 DEF queueKbIndex, rows, TypeOK
<1> QED
  BY <1>1, <1>2, <1>3, <1>4, <1>5 DEF Proceeds

\* What is left of the institute service, and the jobs and searches of the voice agent
LEMMA TypeRest ==
    ASSUME TypeOK,
           \/ \E r \in Requests : DeleteModuleWrite(r) \/ Abort(r)
           \/ deleteCourse
           \/ \E s \in Searches : search_course(s) \/ _cache_set(s)
           \/ CacheExpires
    PROVE  TypeOK'
<1>0. /\ content \in [Contents -> Row \union {None}]
      /\ req \in [Requests -> ReqRecord]
      /\ job \in [Requests -> [Contents -> Jobs]]
      /\ points \in [Contents -> [Positions -> Docs \union {None}]]
  BY DEF TypeOK, Row, ReqRecord, Seen
<1>1. ASSUME NEW r \in Requests, DeleteModuleWrite(r) PROVE TypeOK'
  <2>1. content' \in [Contents -> Row \union {None}]
    BY <1>0, <1>1 DEF DeleteModuleWrite
  <2>2. job' \in [Requests -> [Contents -> Jobs]]
    BY <1>0, <1>1, JobTypes DEF DeleteModuleWrite
  <2>3. req' \in [Requests -> ReqRecord]
    BY <1>1, DoneType DEF DeleteModuleWrite
  <2> QED
    BY <1>1, <2>1, <2>2, <2>3 DEF DeleteModuleWrite, TypeOK, Row, ReqRecord, Seen, searching, observed
<1>2. ASSUME NEW r \in Requests, Abort(r) PROVE TypeOK'
  <2>1. req' \in [Requests -> ReqRecord]
    BY <1>2, DoneType DEF Abort
  <2>2. settled' \subseteq Contents /\ alone' \subseteq Requests
    BY <1>2 DEF Abort, TypeOK
  <2>3. failures' \in 0 .. MaxFailures
    BY <1>2, KbAssumption DEF Abort, TypeOK
  <2> QED
    BY <1>2, <2>1, <2>2, <2>3 DEF Abort, TypeOK, ReqRecord, Seen, rows, searching
<1>3. CASE deleteCourse
  <2>1. content' \in [Contents -> Row \union {None}]
    BY <1>3 DEF deleteCourse
  <2> QED
    BY <1>3, <2>1 DEF deleteCourse, TypeOK, Row, searching
<1>4. Hits \in SUBSET (Contents \X Docs)
  BY <1>0 DEF Hits
<1>5. ASSUME NEW s \in Searches, search_course(s) PROVE TypeOK'
  BY <1>4, <1>5 DEF search_course, TypeOK, rows, observed
<1>6. ASSUME NEW s \in Searches, _cache_set(s) PROVE TypeOK'
  BY <1>6 DEF _cache_set, TypeOK, rows, observed
<1>7. CASE CacheExpires
  BY <1>7 DEF CacheExpires, TypeOK, rows, observed
<1> QED
  BY <1>1, <1>2, <1>3, <1>5, <1>6, <1>7

LEMMA TypeJob ==
    ASSUME TypeOK, NEW r \in Requests, NEW c \in Contents, Works(r, c) \/ JobFails(r, c)
    PROVE  TypeOK'
<1>0. /\ job \in [Requests -> [Contents -> Jobs]]
      /\ points \in [Contents -> [Positions -> Docs \union {None}]]
      /\ job[r][c] \in Jobs
  BY DEF TypeOK
<1>a. job[r][c].doc \in Docs \union {None} /\ job[r][c].next \in Nat
  BY <1>0 DEF Jobs
<1>b. \A n \in Nat : [job[r][c] EXCEPT !.next = n] \in Jobs
  BY <1>0 DEF Jobs
<1>c. \A n \in Nat : [job EXCEPT ![r][c].next = n] \in [Requests -> [Contents -> Jobs]]
  <2> TAKE n \in Nat
  <2>1. [job EXCEPT ![r][c].next = n] = [job EXCEPT ![r] = [job[r] EXCEPT ![c] = [job[r][c] EXCEPT !.next = n]]]
    BY <1>0 DEF Jobs
  <2>2. [job[r] EXCEPT ![c] = [job[r][c] EXCEPT !.next = n]] \in [Contents -> Jobs]
    BY <1>0, <1>b
  <2> QED
    BY <1>0, <2>1, <2>2
<1>1. CASE IndexNothing(r, c)
  BY <1>1, SettlesType DEF IndexNothing, TypeOK, rows, searching
<1>2. CASE IndexClear(r, c)
  <2>1. job' \in [Requests -> [Contents -> Jobs]]
    BY <1>2, <1>c DEF IndexClear
  <2>2. points' \in [Contents -> [Positions -> Docs \union {None}]]
    BY <1>0, <1>2, PointsTypes DEF IndexClear
  <2>3. settled' \subseteq Contents /\ alone' \subseteq Requests /\ failures' \in 0 .. MaxFailures
    BY <1>2, KbAssumption DEF IndexClear, TypeOK, observed
  <2> QED
    BY <1>2, <2>1, <2>2, <2>3 DEF IndexClear, TypeOK, rows, searching
<1>3. CASE IndexPut(r, c)
  <2>1. points' \in [Contents -> [Positions -> Docs \union {None}]]
    BY <1>0, <1>3, <1>a DEF IndexPut
  <2>2. CASE job[r][c].next = Batches[job[r][c].doc]
    <3>1. Ends(r, c) /\ Settles(r, c, TRUE)
      BY <1>3, <2>2 DEF IndexPut
    <3> QED
      BY <1>3, <2>1, <3>1, SettlesType DEF IndexPut, TypeOK, rows, searching
  <2>3. CASE job[r][c].next # Batches[job[r][c].doc]
    <3>a. job[r][c].next + 1 \in Nat
      BY <1>a
    <3>b. job' = [job EXCEPT ![r][c].next = job[r][c].next + 1]
      BY <1>3, <2>3, Zenon DEF IndexPut
    <3>1. job' \in [Requests -> [Contents -> Jobs]]
      BY <1>c, <3>a, <3>b, Zenon
    <3> QED
      BY <1>3, <2>1, <2>3, <3>1 DEF IndexPut, TypeOK, rows, searching, observed
  <2> QED
    BY <2>2, <2>3
<1>4. CASE delete_content(r, c)
  <2>1. points' \in [Contents -> [Positions -> Docs \union {None}]]
    BY <1>0, <1>4, PointsTypes DEF delete_content
  <2> QED
    BY <1>4, <2>1, SettlesType DEF delete_content, TypeOK, rows, searching
<1>5. CASE JobFails(r, c)
  <2>1. job' \in [Requests -> [Contents -> Jobs]]
    BY <1>0, <1>5, JobTypes DEF JobFails, Ends
  <2>2. settled' \subseteq Contents /\ alone' \subseteq Requests /\ failures' \in 0 .. MaxFailures
    BY <1>5, KbAssumption DEF JobFails, TypeOK
  <2> QED
    BY <1>5, <2>1, <2>2 DEF JobFails, TypeOK, rows, searching
<1> QED
  BY <1>1, <1>2, <1>3, <1>4, <1>5 DEF Works

LEMMA TypeStep == TypeOK /\ [Next]_vars => TypeOK'
<1> SUFFICES ASSUME TypeOK, [Next]_vars PROVE TypeOK'
  OBVIOUS
<1>1. CASE Next
  BY <1>1, TypeStart, TypeProceed, TypeRest, TypeJob DEF Next
<1>2. CASE UNCHANGED vars
  BY <1>2 DEF vars, rows, searching, observed, TypeOK
<1> QED
  BY <1>1, <1>2

\* The rows, requests, jobs, points and answers stay in their types.
THEOREM TypeCorrect == Spec => []TypeOK
BY TypeInit, TypeStep, PTL DEF Spec

-----------------------------------------------------------------------------
(* The inductive invariant.  A request is trusted with a content if nothing *)
(* it does there can go wrong; then no other request is about the content, *)
(* the row is as the request has read or written it, and what it has asked *)
(* for is what the row says.                                               *)

Trusted(r, c) == WorksOn(r, c) /\ (c \in settled \/ r \in alone)

Solitary == \A r, q \in Requests, c \in Contents : Trusted(r, c) /\ WorksOn(q, c) => q = r

\* A call fits if it leads to what the row says
Fits(j, c) ==
    /\ j.op = "index" =>
        /\ ItemOf(c) = j.doc
        /\ j.next > 0 => points[c] = [n \in Positions |-> IF n < j.next THEN j.doc ELSE None]
    /\ j.op = "delete" => ~isIndexable(ItemOf(c))

WriteSound(r, c) ==
    /\ req[r].op = "create" => c \notin used
    /\ req[r].op \in {"update", "remove"} => content[c] # None /\ content[c].item = req[r].seen[c]
    /\ req[r].op = "deleteModule" =>
        /\ content[c] # None /\ content[c].module = req[r].module
        /\ c \in DOMAIN req[r].seen /\ content[c].item = req[r].seen[c]

RereadSound(r, c) ==
    /\ content[c] # None /\ content[c].item \in Written(req[r].item, req[r].seen[c])
    /\ req[r].item = NoUrl => ~isIndexable(req[r].seen[c])
    /\ c \in settled => points[c] = PointsOf(req[r].seen[c])

StageSound(r, c) ==
    /\ req[r].step = "write" => WriteSound(r, c)
    /\ req[r].step = "reread" => RereadSound(r, c)
    /\ req[r].step = "queue" => Fits(req[r].call, c)
    /\ Fits(job[r][c], c)

TrustSound == \A r \in Requests, c \in Contents : Trusted(r, c) => StageSound(r, c)

\* Until the first request about it has written, a settled content is as it was
Untouched(c) == \A r \in Requests : WorksOn(r, c) => req[r].step = "write"
Kept == \A c \in settled : Untouched(c) => points[c] = PointsOf(ItemOf(c))

\* How the fields of a request and its jobs go together
JobShape(j) ==
    /\ j.op = "none" => j = NoJob
    /\ j.op = "delete" => j = Delete
    /\ j.op = "index" => j.doc \in Docs /\ j.next \in 0 .. Batches[j.doc]

Shape(r) ==
    /\ req[r].step = "idle" => req[r] = NoRequest /\ r \notin alone
    /\ req[r].step = "done" => req[r] = Finished
    /\ req[r].step # "done" => \A c \in Contents : job[r][c] = NoJob
    /\ InFlight(r) => req[r].op # "none"
    /\ req[r].step = "reread" => req[r].op = "update"
    /\ req[r].step = "queue" => req[r].op # "deleteModule"
    /\ InFlight(r) /\ req[r].op # "deleteModule" => \A c, d \in DOMAIN req[r].seen : c = d
    /\ req[r].step = "queue" => req[r].call # NoJob /\ req[r].call.next = 0
    /\ JobShape(req[r].call) /\ \A c \in Contents : JobShape(job[r][c])

UsedSound == \A c \in Contents : content[c] # None => c \in used
ClosedSound == ~course => settled = {} /\ alone = {}

KbInvariant ==
    /\ TypeOK /\ UsedSound /\ ClosedSound
    /\ \A r \in Requests : Shape(r)
    /\ Solitary /\ TrustSound /\ Kept

LEMMA InvInit == Init => KbInvariant
<1> SUFFICES ASSUME Init PROVE KbInvariant
  OBVIOUS
<1>1. TypeOK
  BY TypeInit
<1>2. \A r \in Requests : req[r] = NoRequest /\ \A c \in Contents : job[r][c] = NoJob
  BY DEF Init
<1>3. \A r \in Requests, c \in Contents : ~WorksOn(r, c)
  BY <1>2 DEF WorksOn, NoRequest
<1>4. UsedSound /\ ClosedSound /\ alone = {}
  BY DEF Init, UsedSound, ClosedSound
<1>5. \A r \in Requests : Shape(r)
  BY <1>2, <1>4 DEF Shape, InFlight, JobShape, NoRequest, NoJob
<1>6. Solitary /\ TrustSound
  BY <1>3 DEF Solitary, TrustSound, Trusted
<1>7. ASSUME NEW c \in Contents PROVE points[c] = PointsOf(ItemOf(c))
  BY KbAssumption DEF Init, PointsOf, ItemOf, NoPoints, isIndexable
<1> QED
  BY <1>1, <1>4, <1>5, <1>6, <1>7 DEF KbInvariant, Kept, TypeOK

\* What a request that starts does to trust: the contents that others are about are no
\* longer settled, and of those others none is alone.
LEMMA StartKeeps ==
    ASSUME KbInvariant, NEW r \in Requests, NEW C \in SUBSET Contents, NEW others \in SUBSET Requests,
           req[r] = NoRequest, Starts(r, C, others),
           UNCHANGED <<content, used, job, points>>,
           \A q \in Requests \ {r} : req'[q] = req[q],
           req'[r].step = "write",
           \A c \in Contents : WorksOn(r, c)' <=> c \in C,
           \A q \in Requests \ {r}, c \in Contents : WorksOn(q, c) => WorksOn(q, c)',
           \A q \in Requests \ {r}, c \in Contents :
               WorksOn(q, c)' => WorksOn(q, c) \/ (c \in C /\ q \in others),
           \A c \in C : Trusted(r, c)' => WriteSound(r, c)'
    PROVE  Solitary' /\ TrustSound' /\ Kept'
<1> DEFINE met == {q \in Requests : \E c \in C : WorksOn(q, c)} \union others
<1>1. /\ settled' = settled \ {c \in C : Busy(c) \/ others # {}}
      /\ alone' = (alone \ met) \union (IF met = {} THEN {r} ELSE {})
  BY DEF Starts
<1>2. r \notin alone /\ \A c \in Contents : job[r][c] = NoJob
  BY DEF KbInvariant, Shape, NoRequest
<1>3. \A c \in Contents : ~WorksOn(r, c)
  BY <1>2 DEF WorksOn, NoRequest
<1>4. ASSUME NEW q \in Requests \ {r}, NEW c \in Contents, Trusted(q, c)'
      PROVE  c \notin C /\ Trusted(q, c)
  <2>1. WorksOn(q, c)' /\ (c \in settled' \/ q \in alone')
    BY <1>4 DEF Trusted
  <2>2. c \notin C
    <3>1. ASSUME c \in C, c \in settled' PROVE FALSE
      BY <1>1, <2>1, <3>1 DEF Busy
    <3>2. ASSUME c \in C, q \in alone' PROVE FALSE
      BY <1>1, <2>1, <3>2
    <3> QED
      BY <2>1, <3>1, <3>2
  <2> QED
    BY <1>1, <2>1, <2>2 DEF Trusted
<1>5. ASSUME NEW q \in Requests \ {r}, NEW c \in C, Trusted(r, c)'
      PROVE  ~WorksOn(q, c)'
  <2>1. c \in settled' \/ r \in alone'
    BY <1>5 DEF Trusted
  <2>2. ASSUME c \in settled' PROVE ~WorksOn(q, c)'
    BY <1>1, <2>2 DEF Busy
  <2>3. ASSUME r \in alone' PROVE ~WorksOn(q, c)'
    BY <1>1, <1>2, <2>3
  <2> QED
    BY <2>1, <2>2, <2>3
<1>6. Solitary'
  <2> SUFFICES ASSUME NEW p \in Requests, NEW q \in Requests, NEW c \in Contents,
                      Trusted(p, c)', WorksOn(q, c)'
               PROVE  q = p
    BY DEF Solitary
  <2>1. CASE p = r
    <3>1. c \in C
      BY <2>1 DEF Trusted
    <3> QED
      BY <1>5, <2>1, <3>1
  <2>2. CASE p # r
    <3>1. c \notin C /\ Trusted(p, c)
      BY <1>4, <2>2
    <3>2. q # r /\ WorksOn(q, c)
      BY <3>1
    <3> QED
      BY <3>1, <3>2 DEF KbInvariant, Solitary
  <2> QED
    BY <2>1, <2>2
<1>7. TrustSound'
  <2> SUFFICES ASSUME NEW q \in Requests, NEW c \in Contents, Trusted(q, c)'
               PROVE  StageSound(q, c)'
    BY DEF TrustSound
  <2>1. CASE q = r
    <3>1. c \in C /\ WriteSound(r, c)'
      BY <2>1 DEF Trusted
    <3>2. Fits(job[r][c], c)'
      BY <1>2 DEF Fits, NoJob
    <3> QED
      BY <2>1, <3>1, <3>2 DEF StageSound
  <2>2. CASE q # r
    <3>1. Trusted(q, c)
      BY <1>4, <2>2
    <3>2. StageSound(q, c)
      BY <3>1 DEF KbInvariant, TrustSound
    <3>3. c \in settled' => c \in settled
      BY <1>1
    <3> QED
      BY <2>2, <3>2, <3>3 DEF StageSound, WriteSound, RereadSound, Fits, ItemOf
  <2> QED
    BY <2>1, <2>2
<1>8. Kept'
  <2> SUFFICES ASSUME NEW c \in settled', Untouched(c)' PROVE (points[c] = PointsOf(ItemOf(c)))'
    BY DEF Kept
  <2>1. c \in settled /\ c \in Contents
    BY <1>1 DEF KbInvariant, TypeOK
  <2>2. Untouched(c)
    BY <1>3, <2>1 DEF Untouched
  <2> QED
    BY <2>1, <2>2 DEF KbInvariant, Kept, ItemOf
<1> QED
  BY <1>6, <1>7, <1>8

\* The parts of the invariant that are about one request, or about the rows alone
LEMMA StartShape ==
    ASSUME KbInvariant, NEW r \in Requests, NEW op \in {"create", "update", "remove", "deleteModule"},
           NEW by, NEW m, NEW item, NEW seen, NEW C, NEW others,
           Request(r, op, by, m, item, seen), Starts(r, C, others),
           op # "deleteModule" => \A c, d \in DOMAIN seen : c = d
    PROVE  UsedSound' /\ ClosedSound' /\ \A q \in Requests : Shape(q)'
<1>1. /\ req[r] = NoRequest /\ course' = TRUE /\ UNCHANGED <<content, used, job>>
      /\ req' = [req EXCEPT ![r] = [op |-> op, by |-> by, step |-> "write", module |-> m,
                                    item |-> item, seen |-> seen, call |-> NoJob]]
  BY DEF Request, rows
<1>2. req \in [Requests -> ReqRecord]
  BY DEF KbInvariant, TypeOK, ReqRecord, Seen
<1>3. \A c \in Contents : job[r][c] = NoJob
  BY <1>1 DEF KbInvariant, Shape, NoRequest
<1>4. Shape(r)'
  BY <1>1, <1>2, <1>3 DEF Shape, InFlight, JobShape, NoJob
<1>5. ASSUME NEW q \in Requests \ {r} PROVE Shape(q)'
  <2>1. req'[q] = req[q] /\ Shape(q)
    BY <1>1, <1>2 DEF KbInvariant
  <2>2. q \in alone' => q \in alone
    BY DEF Starts
  <2> QED
    BY <1>1, <2>1, <2>2 DEF Shape, InFlight, JobShape
<1> QED
  BY <1>1, <1>4, <1>5 DEF KbInvariant, UsedSound, ClosedSound

\* A request that creates nothing leaves alone what the others are about
LEMMA StartWorks ==
    ASSUME KbInvariant, NEW r \in Requests, NEW op \in {"create", "update", "remove", "deleteModule"},
           NEW by, NEW m, NEW item, NEW seen, op # "create",
           Request(r, op, by, m, item, seen)
    PROVE  /\ \A q \in Requests \ {r} : req'[q] = req[q]
           /\ \A k : ContentsOf(k)' = ContentsOf(k)
           /\ \A q \in Requests \ {r}, c \in Contents : WorksOn(q, c)' <=> WorksOn(q, c)
           /\ \A c \in Contents : WorksOn(r, c)' <=>
                c \in DOMAIN seen \/ (op = "deleteModule" /\ c \in ContentsOf(m))
<1>1. /\ req[r] = NoRequest /\ UNCHANGED <<content, used, job>>
      /\ req' = [req EXCEPT ![r] = [op |-> op, by |-> by, step |-> "write", module |-> m,
                                    item |-> item, seen |-> seen, call |-> NoJob]]
  BY DEF Request, rows
<1>2. req \in [Requests -> ReqRecord]
  BY DEF KbInvariant, TypeOK, ReqRecord, Seen
<1>3. \A c \in Contents : job[r][c] = NoJob
  BY <1>1 DEF KbInvariant, Shape, NoRequest
<1>4. \A q \in Requests \ {r} : req'[q] = req[q]
  BY <1>1, <1>2
<1>5. /\ req'[r].op = op /\ req'[r].module = m /\ req'[r].seen = seen
  BY <1>1, <1>2
<1>6. \A k : Creates(k)' = Creates(k)
  BY <1>1, <1>4, <1>5 DEF Creates, NoRequest
<1>7. \A k : \A q \in Creates(k) : q # r
  BY <1>1 DEF Creates, NoRequest
<1>8. ASSUME NEW k PROVE ContentsOf(k)' = ContentsOf(k)
  <2>1. \A q \in Creates(k) : req'[q].seen = req[q].seen
    BY <1>4, <1>7 DEF Creates
  <2>2. UNION {DOMAIN req'[q].seen : q \in Creates(k)} = UNION {DOMAIN req[q].seen : q \in Creates(k)}
    BY <2>1
  <2> QED
    BY <1>1, <1>6, <2>2 DEF ContentsOf
<1>9. \A q \in Requests \ {r}, c \in Contents : WorksOn(q, c)' <=> WorksOn(q, c)
  BY <1>1, <1>4, <1>8 DEF WorksOn
<1>10. \A c \in Contents : WorksOn(r, c)' <=>
         c \in DOMAIN seen \/ (op = "deleteModule" /\ c \in ContentsOf(m))
  BY <1>1, <1>3, <1>5, <1>8 DEF WorksOn
<1> QED
  BY <1>4, <1>8, <1>9, <1>10

LEMMA UpdateInv ==
    ASSUME KbInvariant, NEW r \in Requests, NEW c \in Contents, update(r, c) \/ remove(r, c)
    PROVE  KbInvariant'
<1>0. TypeOK'
  BY TypeStart DEF KbInvariant
<1>1. PICK op \in {"update", "remove"}, by \in Callers, item \in Items :
         /\ content[c] # None
         /\ Request(r, op, by, content[c].module, item, [x \in {c} |-> content[c].item])
         /\ Starts(r, {c}, {})
  <2>1. CASE update(r, c)
    BY <2>1 DEF update
  <2>2. CASE remove(r, c)
    BY <2>2 DEF remove, Items
  <2> QED
    BY <2>1, <2>2
<1> DEFINE seen == [x \in {c} |-> content[c].item]
<1>2. req[r] = NoRequest /\ UNCHANGED <<content, used, job, points>> /\ req \in [Requests -> ReqRecord]
  BY <1>1 DEF Request, rows, KbInvariant, TypeOK, ReqRecord, Seen
<1>3. req'[r].step = "write" /\ req'[r].op = op /\ req'[r].seen = seen
  BY <1>1, <1>2 DEF Request
<1>4. /\ \A q \in Requests \ {r} : req'[q] = req[q]
      /\ \A q \in Requests \ {r}, x \in Contents : WorksOn(q, x)' <=> WorksOn(q, x)
      /\ \A x \in Contents : WorksOn(r, x)' <=> x \in {c}
  BY <1>1, StartWorks
<1>5. WriteSound(r, c)'
  BY <1>1, <1>2, <1>3 DEF WriteSound
<1>6. Solitary' /\ TrustSound' /\ Kept'
  BY <1>1, <1>2, <1>3, <1>4, <1>5, StartKeeps
<1>7. UsedSound' /\ ClosedSound' /\ \A q \in Requests : Shape(q)'
  BY <1>1, StartShape
<1> QED
  BY <1>0, <1>6, <1>7 DEF KbInvariant

LEMMA DeleteModuleInv ==
    ASSUME KbInvariant, NEW r \in Requests, NEW m \in Modules, deleteModule(r, m)
    PROVE  KbInvariant'
<1> DEFINE listed == {c \in Contents : content[c] # None /\ content[c].module = m}
           seen == [c \in listed |-> content[c].item]
<1>0. TypeOK'
  BY TypeStart DEF KbInvariant
<1>1. Request(r, "deleteModule", "teacher", m, Plain, seen) /\ Starts(r, ContentsOf(m), Deletes(m))
  BY DEF deleteModule
<1>2. req[r] = NoRequest /\ UNCHANGED <<content, used, job, points>> /\ req \in [Requests -> ReqRecord]
  BY <1>1 DEF Request, rows, KbInvariant, TypeOK, ReqRecord, Seen
<1>3. /\ req'[r].step = "write" /\ req'[r].op = "deleteModule" /\ req'[r].module = m
      /\ req'[r].seen = seen
  BY <1>1, <1>2 DEF Request
<1>4. ContentsOf(m) \in SUBSET Contents /\ listed \subseteq ContentsOf(m) /\ Deletes(m) \in SUBSET Requests
  <2>1. ASSUME NEW q \in Requests, NEW c \in DOMAIN req[q].seen PROVE c \in Contents
    BY <2>1, SeenItem DEF KbInvariant
  <2> QED
    BY <2>1 DEF ContentsOf, Creates, Deletes
<1>5. /\ \A q \in Requests \ {r} : req'[q] = req[q]
      /\ \A q \in Requests \ {r}, x \in Contents : WorksOn(q, x)' <=> WorksOn(q, x)
      /\ \A x \in Contents : WorksOn(r, x)' <=> x \in ContentsOf(m)
  <2> HIDE DEF listed
  <2>1. DOMAIN seen = listed
    OBVIOUS
  <2>2. /\ \A q \in Requests \ {r} : req'[q] = req[q]
        /\ \A q \in Requests \ {r}, x \in Contents : WorksOn(q, x)' <=> WorksOn(q, x)
        /\ \A x \in Contents : WorksOn(r, x)' <=> x \in DOMAIN seen \/ x \in ContentsOf(m)
    <3> HIDE DEF seen
    <3> QED
      BY <1>1, StartWorks
  <2> QED
    BY <1>4, <2>1, <2>2
<1>6. ASSUME NEW c \in ContentsOf(m), Trusted(r, c)' PROVE WriteSound(r, c)'
  <2>1. c \in settled' \/ r \in alone'
    BY <1>6 DEF Trusted
  <2>2. ASSUME NEW q \in Requests, q \in Creates(m), c \in DOMAIN req[q].seen PROVE FALSE
    <3>1. WorksOn(q, c)
      BY <2>2 DEF WorksOn
    <3>2. c \notin settled'
      BY <3>1 DEF Starts, Busy, deleteModule
    <3>3. r \notin alone
      BY <1>2 DEF KbInvariant, Shape, NoRequest
    <3>4. r \notin alone'
      BY <1>1, <3>1, <3>3 DEF Starts
    <3> QED
      BY <2>1, <3>2, <3>4
  <2>3. c \in listed
    BY <2>2 DEF ContentsOf, Creates
  <2> QED
    BY <1>2, <1>3, <2>3 DEF WriteSound
<1>7. Solitary' /\ TrustSound' /\ Kept'
  <2> HIDE DEF seen
  <2> QED
    BY <1>1, <1>2, <1>3, <1>4, <1>5, <1>6, StartKeeps
<1>8. UsedSound' /\ ClosedSound' /\ \A q \in Requests : Shape(q)'
  <2> HIDE DEF seen
  <2> QED
    BY <1>1, StartShape
<1> QED
  BY <1>0, <1>7, <1>8 DEF KbInvariant

LEMMA CreateInv ==
    ASSUME KbInvariant, NEW r \in Requests, NEW c \in Contents, create(r, c)
    PROVE  KbInvariant'
<1>0. TypeOK'
  BY TypeStart DEF KbInvariant
<1>1. PICK by \in Callers, m \in modules, item \in Items :
         /\ c \notin used /\ ~Busy(c)
         /\ Request(r, "create", by, m, item, [x \in {c} |-> Plain])
         /\ Starts(r, {c}, Deletes(m))
  BY DEF create
<1> DEFINE seen == [x \in {c} |-> Plain]
<1>2. req[r] = NoRequest /\ UNCHANGED <<content, used, job, points>> /\ req \in [Requests -> ReqRecord]
  BY <1>1 DEF Request, rows, KbInvariant, TypeOK, ReqRecord, Seen
<1>3. /\ req'[r].step = "write" /\ req'[r].op = "create" /\ req'[r].module = m
      /\ req'[r].seen = seen /\ \A q \in Requests \ {r} : req'[q] = req[q]
  BY <1>1, <1>2 DEF Request
<1>4. \A k : Creates(k)' = IF k = m THEN Creates(k) \union {r} ELSE Creates(k)
  BY <1>2, <1>3 DEF Creates, NoRequest
<1>5. \A k : r \notin Creates(k)
  BY <1>2 DEF Creates, NoRequest
<1>6. ASSUME NEW k, NEW x
      PROVE  x \in ContentsOf(k)' <=> x \in ContentsOf(k) \/ (k = m /\ x = c)
  <2>1. x \in ContentsOf(k) <=>
          \/ x \in Contents /\ content[x] # None /\ content[x].module = k
          \/ \E q \in Creates(k) : x \in DOMAIN req[q].seen
    BY DEF ContentsOf
  <2>2. x \in ContentsOf(k)' <=>
          \/ x \in Contents /\ content[x] # None /\ content[x].module = k
          \/ \E q \in Creates(k)' : x \in DOMAIN req'[q].seen
    BY <1>2 DEF ContentsOf
  <2>3. (\E q \in Creates(k)' : x \in DOMAIN req'[q].seen)
          <=> (\E q \in Creates(k) : x \in DOMAIN req[q].seen) \/ (k = m /\ x = c)
    <3>1. \A q \in Creates(k) : req'[q] = req[q]
      BY <1>3, <1>5 DEF Creates
    <3>2. DOMAIN req'[r].seen = {c}
      BY <1>3
    <3> QED
      BY <1>4, <3>1, <3>2
  <2> QED
    BY <2>1, <2>2, <2>3
<1>7. /\ \A q \in Requests \ {r}, x \in Contents : WorksOn(q, x) => WorksOn(q, x)'
      /\ \A q \in Requests \ {r}, x \in Contents :
            WorksOn(q, x)' => WorksOn(q, x) \/ (x \in {c} /\ q \in Deletes(m))
  BY <1>2, <1>3, <1>6 DEF WorksOn, Deletes
<1>8. \A x \in Contents : WorksOn(r, x)' <=> x \in {c}
  <2>1. \A x \in Contents : job'[r][x] = NoJob
    BY <1>2 DEF KbInvariant, Shape, NoRequest
  <2> QED
    BY <1>3, <2>1 DEF WorksOn
<1>9. WriteSound(r, c)'
  BY <1>1, <1>2, <1>3 DEF WriteSound
<1>10. Deletes(m) \in SUBSET Requests
  BY DEF Deletes
<1>11. Solitary' /\ TrustSound' /\ Kept'
  BY <1>1, <1>2, <1>3, <1>7, <1>8, <1>9, <1>10, StartKeeps
<1>12. UsedSound' /\ ClosedSound' /\ \A q \in Requests : Shape(q)'
  BY <1>1, StartShape
<1> QED
  BY <1>0, <1>11, <1>12 DEF KbInvariant

\* What a step of one request about one content does to trust
LEMMA StepKeeps ==
    ASSUME KbInvariant, NEW r \in Requests, NEW c \in Contents, WorksOn(r, c),
           \A q \in Requests \ {r} : req'[q] = req[q] /\ \A x \in Contents : job'[q][x] = job[q][x],
           \A x \in Contents \ {c} :
               /\ job'[r][x] = job[r][x] /\ content'[x] = content[x] /\ points'[x] = points[x]
               /\ x \in used' => x \in used
               /\ WorksOn(r, x) => req'[r] = req[r],
           \A q \in Requests, x \in Contents : WorksOn(q, x)' => WorksOn(q, x),
           \A q \in Requests, x \in Contents \ {c} : WorksOn(q, x) => WorksOn(q, x)',
           settled' \subseteq settled \union {c}, alone' \subseteq alone,
           c \in settled' => Trusted(r, c),
           c \in settled' /\ c \notin settled => ~WorksOn(r, c)',
           Trusted(r, c)' => StageSound(r, c)',
           c \in settled' /\ Untouched(c)' => (points[c] = PointsOf(ItemOf(c)))'
    PROVE  Solitary' /\ TrustSound' /\ Kept'
<1>1. ASSUME NEW q \in Requests, NEW x \in Contents, Trusted(q, x)'
      PROVE  Trusted(q, x)
  <2>1. WorksOn(q, x) /\ (x \in settled' \/ q \in alone')
    BY <1>1 DEF Trusted
  <2>2. CASE x \in settled \/ q \in alone
    BY <2>1, <2>2 DEF Trusted
  <2>3. CASE x \in settled' /\ x \notin settled
    <3>1. x = c /\ Trusted(r, c)
      BY <2>3
    <3>2. q = r
      BY <2>1, <3>1 DEF KbInvariant, Solitary
    <3> QED
      BY <3>1, <3>2
  <2> QED
    BY <2>1, <2>2, <2>3
<1>2. Solitary'
  BY <1>1 DEF KbInvariant, Solitary
<1>3. TrustSound'
  <2> SUFFICES ASSUME NEW q \in Requests, NEW x \in Contents, Trusted(q, x)'
               PROVE  StageSound(q, x)'
    BY DEF TrustSound
  <2>1. Trusted(q, x) /\ StageSound(q, x)
    BY <1>1 DEF KbInvariant, TrustSound
  <2>2. CASE x = c
    <3>1. q = r
      BY <2>1, <2>2 DEF KbInvariant, Solitary
    <3> QED
      BY <2>2, <3>1
  <2>3. CASE x # c
    <3>1. req'[q] = req[q] /\ job'[q][x] = job[q][x]
      BY <2>1, <2>3 DEF Trusted
    <3>2. content'[x] = content[x] /\ points'[x] = points[x] /\ ItemOf(x)' = ItemOf(x)
      BY <2>3 DEF ItemOf
    <3>3. x \in settled' => x \in settled
      BY <2>3
    <3> QED
      BY <2>1, <2>3, <3>1, <3>2, <3>3 DEF StageSound, WriteSound, RereadSound, Fits
  <2> QED
    BY <2>2, <2>3
<1>4. Kept'
  <2> SUFFICES ASSUME NEW x \in settled', Untouched(x)', x # c
               PROVE  (points[x] = PointsOf(ItemOf(x)))'
    BY DEF Kept
  <2>1. x \in settled /\ x \in Contents
    BY DEF KbInvariant, TypeOK
  <2>2. Untouched(x)
    BY <2>1 DEF Untouched
  <2> QED
    BY <2>1, <2>2 DEF KbInvariant, Kept, ItemOf
<1> QED
  BY <1>2, <1>3, <1>4

\* A step of a job of r about c: the requests and the rows stay
LEMMA JobKeeps ==
    ASSUME KbInvariant, NEW r \in Requests, NEW c \in Contents, NEW j \in Jobs,
           job[r][c] # NoJob, job' = [job EXCEPT ![r][c] = j], JobShape(j),
           UNCHANGED <<rows, req>>,
           \A x \in Contents \ {c} : points'[x] = points[x],
           settled' \subseteq settled \union {c}, alone' \subseteq alone,
           c \in settled' => Trusted(r, c),
           c \in settled' /\ c \notin settled => j = NoJob,
           Trusted(r, c) /\ (c \in settled' \/ r \in alone') => Fits(j, c)',
           c \in settled' /\ j = NoJob => points'[c] = PointsOf(ItemOf(c)),
           TypeOK'
    PROVE  KbInvariant'
<1>0. job \in [Requests -> [Contents -> Jobs]]
  BY DEF KbInvariant, TypeOK
<1>1. /\ job'[r][c] = j
      /\ \A q \in Requests, x \in Contents : q # r \/ x # c => job'[q][x] = job[q][x]
  BY <1>0
<1>2. req[r] = Finished /\ req'[r] = Finished /\ WorksOn(r, c)
  BY DEF KbInvariant, Shape, WorksOn
<1>3. \A k : ContentsOf(k)' = ContentsOf(k)
  BY DEF rows, ContentsOf, Creates
<1>4. \A q \in Requests, x \in Contents : q # r \/ x # c => (WorksOn(q, x)' <=> WorksOn(q, x))
  BY <1>1, <1>3 DEF WorksOn
<1>5. WorksOn(r, c)' <=> j # NoJob
  BY <1>1, <1>2 DEF WorksOn, Finished, NoRequest
<1>6. ItemOf(c)' = ItemOf(c)
  BY DEF ItemOf, rows
<1>7. Trusted(r, c)' => StageSound(r, c)'
  <2> SUFFICES ASSUME Trusted(r, c)' PROVE StageSound(r, c)'
    OBVIOUS
  <2>1. Trusted(r, c) /\ (c \in settled' \/ r \in alone')
    BY <1>2 DEF Trusted
  <2>2. req'[r].step = "done"
    BY <1>2 DEF Finished, NoRequest
  <2> QED
    BY <1>1, <2>1, <2>2 DEF StageSound, Fits
<1>8. c \in settled' /\ Untouched(c)' => (points[c] = PointsOf(ItemOf(c)))'
  <2>1. Untouched(c)' => ~WorksOn(r, c)'
    BY <1>2 DEF Untouched, Finished, NoRequest
  <2> QED
    BY <1>5, <1>6, <2>1
<1>9. Solitary' /\ TrustSound' /\ Kept'
  BY <1>1, <1>2, <1>4, <1>5, <1>7, <1>8, StepKeeps DEF rows
<1>10. \A q \in Requests : Shape(q)'
  <2> SUFFICES ASSUME NEW q \in Requests PROVE Shape(q)'
    OBVIOUS
  <2>1. Shape(q) /\ (q \in alone' => q \in alone)
    BY DEF KbInvariant
  <2>2. q = r => req[q].step = "done"
    BY <1>2 DEF Finished, NoRequest
  <2>3. \A x \in Contents : JobShape(job'[q][x])
    BY <1>1, <2>1 DEF Shape
  <2> QED
    BY <1>1, <2>1, <2>2, <2>3 DEF Shape, InFlight, JobShape
<1>11. UsedSound' /\ ClosedSound'
  <2>1. ASSUME ~course PROVE settled' = {} /\ alone' = {}
    <3>1. settled = {} /\ alone = {}
      BY <2>1 DEF KbInvariant, ClosedSound
    <3>2. ~Trusted(r, c)
      BY <3>1 DEF Trusted
    <3> QED
      BY <3>1, <3>2
  <2> QED
    BY <2>1 DEF KbInvariant, UsedSound, ClosedSound, rows
<1> QED
  BY <1>9, <1>10, <1>11 DEF KbInvariant

LEMMA NoPointsOf ==
    \A item : ~isIndexable(item) \/ Batches[item] = 0 => PointsOf(item) = NoPoints
<1> SUFFICES ASSUME NEW item, ~isIndexable(item) \/ Batches[item] = 0 PROVE PointsOf(item) = NoPoints
  OBVIOUS
<1>1. \A n \in Positions : n \in Nat \ {0}
  BY KbAssumption DEF Positions
<1>2. \A n \in Positions : ~(isIndexable(item) /\ n <= Batches[item])
  BY <1>1
<1> QED
  BY <1>2 DEF PointsOf, NoPoints

\* The jobs of the voice agent
LEMMA JobInv ==
    ASSUME KbInvariant, NEW r \in Requests, NEW c \in Contents, Works(r, c) \/ JobFails(r, c)
    PROVE  KbInvariant'
<1>0. TypeOK'
  BY TypeJob DEF KbInvariant
<1>a. /\ job \in [Requests -> [Contents -> Jobs]] /\ job[r][c] \in Jobs
      /\ settled \subseteq Contents /\ alone \subseteq Requests
      /\ points \in [Contents -> [Positions -> Docs \union {None}]]
  BY DEF KbInvariant, TypeOK
<1>b. JobShape(job[r][c]) /\ NoJob \in Jobs /\ JobShape(NoJob)
  BY JobTypes DEF KbInvariant, Shape, JobShape, NoJob
<1>c. job[r][c] # NoJob => (Trusted(r, c) <=> c \in settled \/ r \in alone)
  BY DEF Trusted, WorksOn
<1>d. Trusted(r, c) => Fits(job[r][c], c)
  BY DEF KbInvariant, TrustSound, StageSound
<1>e. Fits(NoJob, c)'
  BY DEF Fits, NoJob
<1>1. CASE IndexNothing(r, c)
  <2>1. job[r][c] # NoJob /\ job[r][c].op = "index" /\ job[r][c].doc \in Docs
    BY <1>1, <1>b DEF IndexNothing, NoJob, JobShape
  <2>2. c \in settled' => (c \in settled \/ r \in alone) /\ points[c] = NoPoints
    BY <1>1 DEF IndexNothing, Settles
  <2>3. c \in settled' => points'[c] = PointsOf(ItemOf(c))
    BY <1>1, <1>c, <1>d, <2>1, <2>2, NoPointsOf DEF IndexNothing, Fits
  <2>4. settled' \subseteq settled \union {c} /\ alone' \subseteq alone
    BY <1>1 DEF IndexNothing, Settles
  <2> QED
    BY <1>0, <1>1, <1>b, <1>c, <1>e, <2>1, <2>2, <2>3, <2>4, JobKeeps DEF IndexNothing, Ends
<1>2. CASE IndexClear(r, c)
  <2> PICK j : j = [job[r][c] EXCEPT !.next = 1]
    OBVIOUS
  <2>1. job[r][c] # NoJob /\ job[r][c].op = "index" /\ job[r][c].doc \in Docs
    BY <1>2, <1>b DEF IndexClear, NoJob, JobShape
  <2>2. /\ j \in Jobs /\ j # NoJob /\ j.op = "index" /\ j.doc = job[r][c].doc /\ j.next = 1
    BY <1>a, <2>1 DEF Jobs, NoJob
  <2>3. JobShape(j)
    BY <1>2, <2>1, <2>2, KbAssumption DEF JobShape, IndexClear
  <2>4. job' = [job EXCEPT ![r][c] = j]
    BY <1>2, <1>a DEF IndexClear, Jobs
  <2>5. CASE points' = [points EXCEPT ![c] = NoPoints] /\ UNCHANGED observed
    <3>1. Trusted(r, c) => Fits(j, c)'
      <4>1. ItemOf(c)' = ItemOf(c)
        BY <1>2 DEF IndexClear, ItemOf, rows
      <4>2. points'[c] = [n \in Positions |-> IF n < j.next THEN j.doc ELSE None]
        <5>1. \A n \in Positions : ~(n < 1)
          BY KbAssumption DEF Positions
        <5> QED
          BY <1>a, <2>2, <2>5, <5>1 DEF NoPoints
      <4>3. Trusted(r, c) => ItemOf(c) = j.doc
        BY <1>d, <2>1, <2>2 DEF Fits
      <4> QED
        BY <2>2, <4>1, <4>2, <4>3 DEF Fits
    <3>2. settled' = settled /\ alone' = alone
      BY <2>5 DEF observed
    <3>3. \A x \in Contents \ {c} : points'[x] = points[x]
      BY <1>a, <2>5
    <3>4. c \in settled' => Trusted(r, c)
      BY <1>c, <2>1, <3>2
    <3>5. UNCHANGED <<rows, req>>
      BY <1>2 DEF IndexClear
    <3> QED
      BY <1>0, <2>1, <2>2, <2>3, <2>4, <3>1, <3>2, <3>3, <3>4, <3>5, JobKeeps
  <2>6. CASE settled' = settled \ {c} /\ alone' = alone \ {r} /\ UNCHANGED points
    <3>1. UNCHANGED <<rows, req>>
      BY <1>2 DEF IndexClear
    <3> QED
      BY <1>0, <2>1, <2>2, <2>3, <2>4, <2>6, <3>1, JobKeeps
  <2> QED
    BY <1>2, <2>5, <2>6 DEF IndexClear
<1>3. CASE IndexPut(r, c)
  <2> PICK j : j = IF job[r][c].next = Batches[job[r][c].doc] THEN NoJob
                   ELSE [job[r][c] EXCEPT !.next = job[r][c].next + 1]
    OBVIOUS
  <2> DEFINE d == job[r][c].doc
             n == job[r][c].next
  <2>1. /\ job[r][c] # NoJob /\ job[r][c].op = "index" /\ d \in Docs
        /\ n \in Nat /\ 0 < n /\ n <= Batches[d] /\ Batches[d] \in Nat
    BY <1>3, <1>b, KbAssumption DEF IndexPut, NoJob, JobShape
  <2>2. n \in Positions
    BY <2>1 DEF Positions
  <2>3. points' = [points EXCEPT ![c] = [points[c] EXCEPT ![n] = d]]
    BY <1>3, <1>a DEF IndexPut
  <2>4. UNCHANGED <<rows, req>>
    BY <1>3 DEF IndexPut
  <2>5. ItemOf(c)' = ItemOf(c)
    BY <2>4 DEF ItemOf, rows
  <2>6. Trusted(r, c) => /\ ItemOf(c) = d
                         /\ points[c] = [k \in Positions |-> IF k < n THEN d ELSE None]
    BY <1>d, <2>1 DEF Fits
  <2>7. Trusted(r, c) => points'[c] = [k \in Positions |-> IF k < n + 1 THEN d ELSE None]
    <3>1. \A k \in Positions : k \in Nat
      BY KbAssumption DEF Positions
    <3>2. \A k \in Positions : (k < n \/ k = n) <=> k < n + 1
      BY <2>1, <3>1
    <3>3. points'[c] = [points[c] EXCEPT ![n] = d]
      BY <1>a, <2>3
    <3> HIDE DEF d, n
    <3> QED
      BY <2>2, <2>6, <3>2, <3>3
  <2>8. \A x \in Contents \ {c} : points'[x] = points[x]
    BY <1>a, <2>3
  <2>9. CASE n = Batches[d]
    <3>1. j = NoJob /\ job' = [job EXCEPT ![r][c] = j]
      BY <1>3, <2>9 DEF IndexPut, Ends
    <3>2. Settles(r, c, TRUE)
      BY <1>3, <2>9 DEF IndexPut
    <3>3. settled' \subseteq settled \union {c} /\ alone' \subseteq alone
      BY <3>2 DEF Settles
    <3>4. c \in settled' => Trusted(r, c)
      BY <1>c, <2>1, <3>2 DEF Settles
    <3>5. Trusted(r, c) => points'[c] = PointsOf(ItemOf(c))
      <4>1. \A k \in Positions : k < n + 1 <=> k <= Batches[d]
        BY <2>1, <2>9, KbAssumption DEF Positions
      <4>2. isIndexable(d)
        BY <2>1 DEF isIndexable
      <4> HIDE DEF d, n
      <4> QED
        BY <2>6, <2>7, <4>1, <4>2 DEF PointsOf
    <3>6. Fits(j, c)'
      BY <3>1 DEF Fits, NoJob
    <3> HIDE DEF d, n
    <3> QED
      BY <1>0, <1>b, <2>1, <2>4, <2>8, <3>1, <3>3, <3>4, <3>5, <3>6, JobKeeps
  <2>10. CASE n # Batches[d]
    <3>1. /\ j = [job[r][c] EXCEPT !.next = n + 1]
          /\ j \in Jobs /\ j # NoJob /\ j.op = "index" /\ j.doc = d /\ j.next = n + 1
      BY <1>a, <2>1, <2>10 DEF Jobs, NoJob
    <3>2. JobShape(j)
      BY <2>1, <2>10, <3>1 DEF JobShape
    <3>3. job' = [job EXCEPT ![r][c] = j]
      BY <1>3, <1>a, <2>10, <3>1 DEF IndexPut, Jobs
    <3>4. settled' = settled /\ alone' = alone
      BY <1>3, <2>10 DEF IndexPut, observed
    <3>5. c \in settled' => Trusted(r, c)
      BY <1>c, <2>1, <3>4
    <3>6. Trusted(r, c) => Fits(j, c)'
      <4> HIDE DEF d, n
      <4> QED
        BY <2>5, <2>6, <2>7, <3>1 DEF Fits
    <3> HIDE DEF d, n
    <3> QED
      BY <1>0, <2>1, <2>4, <2>8, <3>1, <3>2, <3>3, <3>4, <3>5, <3>6, JobKeeps
  <2> QED
    BY <2>9, <2>10
<1>4. CASE delete_content(r, c)
  <2>1. job[r][c] # NoJob /\ job[r][c].op = "delete"
    BY <1>4 DEF delete_content, NoJob
  <2>2. UNCHANGED <<rows, req>> /\ Ends(r, c) /\ Settles(r, c, TRUE)
    BY <1>4 DEF delete_content
  <2>3. points' = [points EXCEPT ![c] = NoPoints]
    BY <1>4 DEF delete_content
  <2>4. Trusted(r, c) => points'[c] = PointsOf(ItemOf(c))
    BY <1>a, <1>d, <2>1, <2>3, NoPointsOf DEF Fits
  <2>5. \A x \in Contents \ {c} : points'[x] = points[x]
    BY <1>a, <2>3
  <2>6. settled' \subseteq settled \union {c} /\ alone' \subseteq alone
    BY <2>2 DEF Settles
  <2>7. c \in settled' => Trusted(r, c)
    BY <1>c, <2>1, <2>2 DEF Settles
  <2> QED
    BY <1>0, <1>b, <1>e, <2>1, <2>2, <2>4, <2>5, <2>6, <2>7, JobKeeps DEF Ends
<1>5. CASE JobFails(r, c)
  <2>1. job[r][c] # NoJob /\ UNCHANGED <<rows, req, points>> /\ Ends(r, c)
    BY <1>5 DEF JobFails
  <2>2. settled' = settled \ {c} /\ alone' = alone \ {r}
    BY <1>5 DEF JobFails
  <2> QED
    BY <1>0, <1>b, <1>e, <2>1, <2>2, JobKeeps DEF Ends
<1> QED
  BY <1>1, <1>2, <1>3, <1>4, <1>5 DEF Works

\* A request of r about c goes on: what it writes, R and j are its record and its job from now on
LEMMA ProceedKeeps ==
    ASSUME KbInvariant, TypeOK', NEW r \in Requests, NEW c \in Contents, NEW R, NEW j,
           InFlight(r), req[r].op # "deleteModule", c \in DOMAIN req[r].seen,
           req' = [req EXCEPT ![r] = R], job' = [job EXCEPT ![r][c] = j],
           \/ R = Finished
           \/ /\ j = NoJob /\ R.step \in {"reread", "queue"} /\ R.op = req[r].op
              /\ R.module = req[r].module /\ R.seen = req[r].seen
              /\ R.step = "reread" => R.op = "update"
              /\ R.step = "queue" => R.call # NoJob /\ R.call.next = 0,
           JobShape(R.call), JobShape(j),
           \A x \in Contents \ {c} : content'[x] = content[x],
           content'[c] # None =>
               /\ c \in used'
               /\ \/ content[c] # None /\ content'[c].module = content[c].module
                  \/ req[r].op = "create" /\ content'[c].module = req[r].module,
           used \subseteq used', used' \subseteq used \union {c},
           UNCHANGED <<course, points>>, settled' \subseteq settled, alone' \subseteq alone,
           c \in settled' \/ r \in alone' => /\ R.step = "reread" => RereadSound(r, c)'
                                             /\ R.step = "queue" => Fits(R.call, c)'
                                             /\ Fits(j, c)',
           c \in settled' /\ R = Finished /\ j = NoJob => points[c] = PointsOf(ItemOf(c)')
    PROVE  KbInvariant'
<1>0. req \in [Requests -> ReqRecord] /\ job \in [Requests -> [Contents -> Jobs]]
  BY DEF KbInvariant, TypeOK, ReqRecord, Seen
<1>1. /\ req'[r] = R /\ job'[r][c] = j
      /\ \A q \in Requests \ {r} : req'[q] = req[q]
      /\ \A q \in Requests, x \in Contents : q # r \/ x # c => job'[q][x] = job[q][x]
  BY <1>0
<1>2. Finished.step = "done" /\ Finished.op = "none" /\ Finished.call = NoJob /\ DOMAIN Finished.seen = {}
  BY DEF Finished, NoRequest
<1>3. /\ \A x \in Contents : job[r][x] = NoJob
      /\ \A x \in DOMAIN req[r].seen : x = c
      /\ req[r].op # "none"
  BY DEF KbInvariant, Shape, InFlight
<1>4. WorksOn(r, c) /\ \A x \in Contents \ {c} : ~WorksOn(r, x)
  BY <1>3 DEF WorksOn
<1>5. ASSUME NEW k PROVE /\ \A x \in ContentsOf(k)' : x \in ContentsOf(k)
                         /\ \A x \in ContentsOf(k) : x # c => x \in ContentsOf(k)'
  <2>1. \A x : x \in ContentsOf(k) <=>
          \/ x \in Contents /\ content[x] # None /\ content[x].module = k
          \/ \E q \in Requests : req[q].op = "create" /\ req[q].module = k /\ x \in DOMAIN req[q].seen
    BY DEF ContentsOf, Creates
  <2>2. \A x : x \in ContentsOf(k)' <=>
          \/ x \in Contents /\ content'[x] # None /\ content'[x].module = k
          \/ \E q \in Requests : req'[q].op = "create" /\ req'[q].module = k /\ x \in DOMAIN req'[q].seen
    BY DEF ContentsOf, Creates
  <2>3. ASSUME NEW x \in ContentsOf(k)' PROVE x \in ContentsOf(k)
    <3>1. CASE x \in Contents /\ content'[x] # None /\ content'[x].module = k
      BY <2>1, <3>1
    <3>2. CASE \E q \in Requests : req'[q].op = "create" /\ req'[q].module = k /\ x \in DOMAIN req'[q].seen
      <4>1. PICK q \in Requests : req'[q].op = "create" /\ req'[q].module = k /\ x \in DOMAIN req'[q].seen
        BY <3>2
      <4>2. req[q].op = "create" /\ req[q].module = k /\ x \in DOMAIN req[q].seen
        BY <1>1, <1>2, <4>1
      <4> QED
        BY <2>1, <4>2
    <3> QED
      BY <2>2, <3>1, <3>2
  <2>4. ASSUME NEW x \in ContentsOf(k), x # c PROVE x \in ContentsOf(k)'
    <3>1. CASE x \in Contents /\ content[x] # None /\ content[x].module = k
      BY <2>2, <2>4, <3>1
    <3>2. CASE \E q \in Requests : req[q].op = "create" /\ req[q].module = k /\ x \in DOMAIN req[q].seen
      <4>1. PICK q \in Requests : req[q].op = "create" /\ req[q].module = k /\ x \in DOMAIN req[q].seen
        BY <3>2
      <4>2. q # r
        BY <1>3, <2>4, <4>1
      <4> QED
        BY <1>1, <2>2, <4>1, <4>2
    <3> QED
      BY <2>1, <3>1, <3>2
  <2> QED
    BY <2>3, <2>4
<1>6. \A q \in Requests, x \in Contents : WorksOn(q, x)' => WorksOn(q, x)
  <2> SUFFICES ASSUME NEW q \in Requests, NEW x \in Contents, WorksOn(q, x)' PROVE WorksOn(q, x)
    OBVIOUS
  <2>1. CASE q # r
    BY <1>1, <1>5, <2>1 DEF WorksOn
  <2>2. CASE q = r
    <3>1. x = c
      BY <1>1, <1>2, <1>3, <2>2 DEF WorksOn
    <3> QED
      BY <1>4, <2>2, <3>1
  <2> QED
    BY <2>1, <2>2
<1>7. \A q \in Requests, x \in Contents \ {c} : WorksOn(q, x) => WorksOn(q, x)'
  <2> SUFFICES ASSUME NEW q \in Requests, NEW x \in Contents \ {c}, WorksOn(q, x) PROVE WorksOn(q, x)'
    OBVIOUS
  <2>1. q # r
    BY <1>4
  <2> QED
    BY <1>1, <1>5, <2>1 DEF WorksOn
<1>8. Trusted(r, c)' => StageSound(r, c)'
  <2> SUFFICES ASSUME Trusted(r, c)' PROVE StageSound(r, c)'
    OBVIOUS
  <2>1. c \in settled' \/ r \in alone'
    BY DEF Trusted
  <2>2. req'[r].step # "write"
    BY <1>1, <1>2
  <2>3. /\ R.step = "reread" => RereadSound(r, c)'
        /\ R.step = "queue" => Fits(R.call, c)'
        /\ Fits(j, c)'
    BY <2>1
  <2>4. req'[r].step = R.step /\ req'[r].call = R.call
    BY <1>1
  <2> QED
    BY <1>1, <2>2, <2>3, <2>4 DEF StageSound, Fits
<1>9. c \in settled' /\ Untouched(c)' => (points[c] = PointsOf(ItemOf(c)))'
  <2> SUFFICES ASSUME c \in settled', Untouched(c)' PROVE (points[c] = PointsOf(ItemOf(c)))'
    OBVIOUS
  <2>1. ~WorksOn(r, c)'
    BY <1>1, <1>2 DEF Untouched
  <2>2. j = NoJob /\ R = Finished
    BY <1>1, <2>1 DEF WorksOn
  <2> QED
    BY <2>2 DEF PointsOf
<1>10. c \in settled' => Trusted(r, c)
  BY <1>4 DEF Trusted
<1>11. \A x \in Contents \ {c} : x \in used' => x \in used
  OBVIOUS
<1>12. Solitary' /\ TrustSound' /\ Kept'
  BY <1>1, <1>4, <1>6, <1>7, <1>8, <1>9, <1>10, <1>11, StepKeeps
<1>13. \A q \in Requests : Shape(q)'
  <2> SUFFICES ASSUME NEW q \in Requests PROVE Shape(q)'
    OBVIOUS
  <2>1. CASE q # r
    BY <1>1, <2>1 DEF KbInvariant, Shape, InFlight, JobShape
  <2>2. CASE q = r
    <3>1. \A x \in Contents : JobShape(job'[r][x])
      BY <1>1, <1>3 DEF JobShape, NoJob
    <3>2. CASE R = Finished
      BY <1>1, <1>2, <2>2, <3>1, <3>2 DEF Shape, InFlight, JobShape
    <3>3. CASE R # Finished
      BY <1>1, <1>3, <2>2, <3>1, <3>3 DEF Shape, InFlight, JobShape
    <3> QED
      BY <3>2, <3>3
  <2> QED
    BY <2>1, <2>2
<1>14. UsedSound' /\ ClosedSound'
  BY DEF KbInvariant, UsedSound, ClosedSound
<1> QED
  BY <1>12, <1>13, <1>14 DEF KbInvariant

\* What a change from one item to another asks for
LEMMA AskedFits ==
    ASSUME NEW changed \in BOOLEAN, NEW before \in Items, NEW after \in Items, NEW call,
           call = Asked(changed, before, after)
    PROVE  /\ JobShape(call) /\ call.next = 0
           /\ call.op = "index" => call.doc = after
           /\ call.op = "delete" => ~isIndexable(after)
           /\ call = NoJob /\ (~changed => before = after) => PointsOf(before) = PointsOf(after)
<1>1. CASE isIndexable(after) /\ changed
  BY <1>1, KbAssumption DEF Asked, Index, JobShape, NoJob, isIndexable
<1>2. CASE ~(isIndexable(after) /\ changed) /\ isIndexable(before) /\ ~isIndexable(after)
  BY <1>2 DEF Asked, Delete, JobShape, NoJob
<1>3. CASE ~(isIndexable(after) /\ changed) /\ ~(isIndexable(before) /\ ~isIndexable(after))
  <2>1. call = NoJob
    BY <1>3 DEF Asked
  <2>2. (~changed => before = after) => PointsOf(before) = PointsOf(after)
    BY <1>3, NoPointsOf
  <2> QED
    BY <2>1, <2>2 DEF JobShape, NoJob
<1> QED
  BY <1>1, <1>2, <1>3

\* A request of r about c ends with what it asks for
LEMMA SendsKeeps ==
    ASSUME KbInvariant, TypeOK', NEW r \in Requests, NEW c \in Contents,
           NEW changed \in BOOLEAN, NEW before \in Items, NEW after \in Items,
           InFlight(r), req[r].op # "deleteModule", c \in DOMAIN req[r].seen,
           Sends(r, c, Asked(changed, before, after)),
           \A x \in Contents \ {c} : content'[x] = content[x],
           content'[c] # None =>
               /\ c \in used'
               /\ \/ content[c] # None /\ content'[c].module = content[c].module
                  \/ req[r].op = "create" /\ content'[c].module = req[r].module,
           used \subseteq used', used' \subseteq used \union {c},
           UNCHANGED <<course, points>>, settled' \subseteq settled, alone' \subseteq alone,
           c \in settled' \/ r \in alone' =>
               /\ ItemOf(c)' = after \/ (~isIndexable(ItemOf(c)') /\ ~isIndexable(after))
               /\ ~changed => before = after,
           c \in settled' => points[c] = PointsOf(before)
    PROVE  KbInvariant'
<1>0. /\ req \in [Requests -> ReqRecord] /\ job \in [Requests -> [Contents -> Jobs]]
      /\ job[r][c] = NoJob
  BY DEF KbInvariant, TypeOK, ReqRecord, Seen, Shape, InFlight
<1>1. PICK call : call = Asked(changed, before, after)
  OBVIOUS
<1>2. /\ JobShape(call) /\ call.next = 0
      /\ call.op = "index" => call.doc = after
      /\ call.op = "delete" => ~isIndexable(after)
      /\ call = NoJob /\ (~changed => before = after) => PointsOf(before) = PointsOf(after)
  BY <1>1, AskedFits
<1>3. c \in settled' \/ r \in alone' => Fits(call, c)'
  BY <1>2 DEF Fits, JobShape, isIndexable
<1>4. c \in settled' /\ call = NoJob => points[c] = PointsOf(ItemOf(c)')
  BY <1>2, NoPointsOf
<1>5. CASE Done(r) /\ job' = [job EXCEPT ![r][c] = call]
  <2>1. Finished.step = "done" /\ Finished.call = NoJob /\ JobShape(NoJob)
    BY DEF Finished, NoRequest, JobShape, NoJob
  <2>2. req' = [req EXCEPT ![r] = Finished]
    BY <1>5 DEF Done
  <2> QED
    BY <1>2, <1>3, <1>4, <1>5, <2>1, <2>2, ProceedKeeps
<1>6. CASE /\ req' = [req EXCEPT ![r].step = "queue", ![r].call = call]
           /\ UNCHANGED job /\ call # NoJob
  <2> PICK R : R = [req[r] EXCEPT !.step = "queue", !.call = call]
    OBVIOUS
  <2>1. /\ R.step = "queue" /\ R.call = call /\ R.op = req[r].op
        /\ R.module = req[r].module /\ R.seen = req[r].seen /\ R # Finished
    BY <1>0 DEF ReqRecord, Finished, NoRequest
  <2>2. req' = [req EXCEPT ![r] = R]
    BY <1>0, <1>6 DEF ReqRecord
  <2>3. job' = [job EXCEPT ![r][c] = NoJob]
    BY <1>0, <1>6
  <2>4. JobShape(NoJob) /\ Fits(NoJob, c)'
    BY DEF JobShape, NoJob, Fits
  <2>5. JobShape(R.call) /\ R.call # NoJob /\ R.call.next = 0
    BY <1>2, <1>6, <2>1
  <2>6. c \in settled' \/ r \in alone' => Fits(R.call, c)'
    BY <1>3, <2>1 DEF Fits
  <2> QED
    BY <2>1, <2>2, <2>3, <2>4, <2>5, <2>6, ProceedKeeps
<1> QED
  BY <1>1, <1>5, <1>6 DEF Sends

\* A request of r about c ends and asks for nothing
LEMMA DoneKeeps ==
    ASSUME KbInvariant, TypeOK', NEW r \in Requests, NEW c \in Contents,
           InFlight(r), req[r].op # "deleteModule", c \in DOMAIN req[r].seen, Done(r),
           UNCHANGED <<rows, job, points, settled, alone>>,
           c \in settled => points[c] = PointsOf(ItemOf(c))
    PROVE  KbInvariant'
<1>1. job \in [Requests -> [Contents -> Jobs]] /\ job[r][c] = NoJob
  BY DEF KbInvariant, TypeOK, Shape, InFlight
<1>2. req' = [req EXCEPT ![r] = Finished] /\ job' = [job EXCEPT ![r][c] = NoJob]
  BY <1>1 DEF Done
<1>3. Finished.step = "done" /\ Finished.call = NoJob /\ JobShape(NoJob) /\ Fits(NoJob, c)'
  BY DEF Finished, NoRequest, JobShape, NoJob, Fits
<1>4. UNCHANGED <<course, content, used>> /\ ItemOf(c)' = ItemOf(c)
  BY DEF rows, ItemOf
<1>5. content'[c] # None => c \in used'
  BY <1>4 DEF KbInvariant, UsedSound
<1> QED
  BY <1>2, <1>3, <1>4, <1>5, ProceedKeeps

\* The steps of the requests about one content
LEMMA ProceedInv ==
    ASSUME KbInvariant, NEW r \in Requests, NEW c \in Contents, Proceeds(r, c)
    PROVE  KbInvariant'
<1>0. TypeOK'
  BY TypeProceed DEF KbInvariant
<1>a. /\ req \in [Requests -> ReqRecord] /\ content \in [Contents -> Row \union {None}]
      /\ Plain \in Items /\ Plain # None /\ ~isIndexable(Plain)
  BY KbAssumption DEF KbInvariant, TypeOK, ReqRecord, Seen, Row, Items, isIndexable
<1>b. /\ InFlight(r) /\ c \in DOMAIN req[r].seen /\ req[r].op # "deleteModule" /\ WorksOn(r, c)
      /\ req[r].item \in Items /\ req[r].seen[c] \in Items
  <2>1. InFlight(r) /\ c \in DOMAIN req[r].seen
    BY DEF Proceeds, CreateWrite, UpdateWrite, UpdateReread, RemoveWrite, queueKbIndex, InFlight
  <2>2. req[r].op # "deleteModule"
    BY DEF Proceeds, CreateWrite, UpdateWrite, UpdateReread, RemoveWrite, queueKbIndex,
           KbInvariant, Shape
  <2>3. req[r].seen[c] \in Items
    BY <2>1, SeenItem DEF KbInvariant
  <2> QED
    BY <1>a, <2>1, <2>2, <2>3 DEF WorksOn, ReqRecord
<1>c. Trusted(r, c) => /\ StageSound(r, c)
                       /\ \A q \in Requests : WorksOn(q, c) => q = r
  BY DEF KbInvariant, TrustSound, Solitary
<1>d. c \in settled => Trusted(r, c)
  BY <1>b DEF Trusted
<1>e. c \in settled /\ req[r].step = "write" => points[c] = PointsOf(ItemOf(c))
  BY <1>c, <1>d DEF KbInvariant, Kept, Untouched
<1>1. CASE CreateWrite(r, c)
  <2>1. /\ req[r].op = "create" /\ req[r].step = "write"
        /\ UNCHANGED <<course, modules, points, settled, alone>>
    BY <1>1 DEF CreateWrite, observed
  <2>2. Trusted(r, c) => content[c] = None /\ ItemOf(c) = Plain
    BY <1>c, <2>1 DEF StageSound, WriteSound, KbInvariant, UsedSound, ItemOf
  <2>3. CASE req[r].module \in modules
    <3>1. /\ content' = [content EXCEPT ![c] = [module |-> req[r].module, item |-> req[r].item]]
          /\ used' = used \union {c} /\ Sends(r, c, Asked(TRUE, Plain, req[r].item))
      BY <1>1, <2>3 DEF CreateWrite
    <3>2. content'[c] = [module |-> req[r].module, item |-> req[r].item]
      BY <1>a, <3>1
    <3>3. content'[c] # None
      BY <1>a, <1>b, <2>3, <3>2, KbAssumption DEF KbInvariant, TypeOK
    <3>4. ItemOf(c)' = req[r].item
      BY <3>2, <3>3 DEF ItemOf
    <3> QED
      BY <1>0, <1>a, <1>b, <1>d, <1>e, <2>1, <2>2, <3>1, <3>2, <3>4, SendsKeeps
  <2>4. CASE req[r].module \notin modules
    <3>1. Done(r) /\ UNCHANGED <<content, used, job>>
      BY <1>1, <2>4 DEF CreateWrite
    <3> QED
      BY <1>0, <1>b, <1>d, <1>e, <2>1, <3>1, DoneKeeps DEF rows
  <2> QED
    BY <2>3, <2>4
<1>2. CASE UpdateWrite(r, c)
  <2> PICK before \in Items : before = req[r].seen[c]
    BY <1>b
  <2> PICK item \in Items : item = req[r].item
    BY <1>b
  <2>1. /\ req[r].op = "update" /\ req[r].step = "write"
        /\ UNCHANGED <<course, modules, used, points>>
        /\ settled' \subseteq settled /\ alone' \subseteq alone
        /\ item = NoUrl /\ isIndexable(before) => c \notin settled' /\ r \notin alone'
    BY <1>2 DEF UpdateWrite
  <2>2. c \in settled' \/ r \in alone' => /\ content[c] # None /\ content[c].item = before
                                          /\ item = NoUrl => ~isIndexable(before)
    BY <1>b, <1>c, <2>1 DEF Trusted, StageSound, WriteSound
  <2>3. content[c] # None => /\ content'[c] # None /\ content'[c].module = content[c].module
                             /\ content'[c].item \in Written(item, content[c].item)
    <3> HAVE content[c] # None
    <3>1. PICK now \in Written(item, content[c].item) : content' = [content EXCEPT ![c].item = now]
      BY <1>2 DEF UpdateWrite
    <3>2. content[c] \in Row
      BY <1>a
    <3>3. now \in Items
      BY <3>2, WrittenItems DEF Row
    <3>4. content'[c] = [module |-> content[c].module, item |-> now]
      BY <1>a, <3>1, <3>2 DEF Row
    <3> QED
      BY <3>2, <3>3, <3>4, KbAssumption DEF Row
  <2>4. /\ content[c] = None => content'[c] = None
        /\ \A x \in Contents \ {c} : content'[x] = content[x]
    BY <1>2, <1>a DEF UpdateWrite
  <2>5. content'[c] # None =>
           c \in used' /\ content[c] # None /\ content'[c].module = content[c].module
    BY <2>1, <2>3, <2>4 DEF KbInvariant, UsedSound
  <2>6. c \in settled' \/ r \in alone' =>
           content'[c] # None /\ content'[c].item \in Written(item, before)
    BY <2>2, <2>3 DEF Written
  <2>7. c \in settled' => points[c] = PointsOf(before)
    <3> HAVE c \in settled'
    <3>1. ItemOf(c) = before
      BY <2>2 DEF ItemOf
    <3> QED
      BY <1>e, <2>1, <3>1
  <2>8. CASE req[r].by = "teacher"
    <3> PICK after \in Items : after = IF item = NoUrl THEN before ELSE item
      OBVIOUS
    <3> PICK changed \in BOOLEAN : changed = (item # before)
      OBVIOUS
    <3>1. Sends(r, c, Asked(changed, before, after))
      BY <1>2, <2>8 DEF UpdateWrite
    <3>2. c \in settled' \/ r \in alone' =>
             /\ ItemOf(c)' = after \/ (~isIndexable(ItemOf(c)') /\ ~isIndexable(after))
             /\ ~changed => before = after
      <4> HAVE c \in settled' \/ r \in alone'
      <4>1. ItemOf(c)' = content'[c].item
        BY <2>6 DEF ItemOf
      <4> PICK now \in Written(item, before) : now = content'[c].item
        BY <2>6
      <4>2. /\ item # NoUrl => now = item
            /\ item = NoUrl => ~isIndexable(now) /\ ~isIndexable(before)
        BY <2>2, WrittenItems
      <4> QED
        BY <4>1, <4>2
    <3> QED
      BY <1>0, <1>b, <2>1, <2>4, <2>5, <2>7, <3>1, <3>2, SendsKeeps
  <2>9. CASE req[r].by # "teacher"
    <3> PICK R : R = [req[r] EXCEPT !.step = "reread"]
      OBVIOUS
    <3>1. /\ R.step = "reread" /\ R.op = "update" /\ R.module = req[r].module
          /\ R.seen = req[r].seen /\ R.item = req[r].item /\ R.call = req[r].call /\ R # Finished
      BY <1>a, <2>1 DEF ReqRecord, Finished, NoRequest
    <3>2. req' = [req EXCEPT ![r] = R]
      BY <1>2, <1>a, <2>9 DEF UpdateWrite, ReqRecord
    <3>3. job' = [job EXCEPT ![r][c] = NoJob]
      BY <1>2, <1>b, <2>9 DEF UpdateWrite, KbInvariant, TypeOK, Shape, InFlight
    <3>4. c \in settled' \/ r \in alone' => RereadSound(r, c)'
      <4>1. req'[r] = R
        BY <1>a, <3>2
      <4> QED
        BY <2>1, <2>2, <2>6, <2>7, <3>1, <4>1 DEF RereadSound, Written, PointsOf, isIndexable
    <3>5. JobShape(R.call) /\ JobShape(NoJob) /\ Fits(NoJob, c)'
      BY <3>1 DEF KbInvariant, Shape, JobShape, NoJob, Fits
    <3> QED
      BY <1>0, <1>b, <2>1, <2>4, <2>5, <3>1, <3>2, <3>3, <3>4, <3>5, ProceedKeeps
  <2> QED
    BY <2>8, <2>9
<1>3. CASE UpdateReread(r, c)
  <2> PICK before \in Items : before = req[r].seen[c]
    BY <1>b
  <2> PICK item \in Items : item = req[r].item
    BY <1>b
  <2>1. req[r].op = "update" /\ req[r].step = "reread" /\ UNCHANGED <<rows, points, settled, alone>>
    BY <1>3 DEF UpdateReread, observed
  <2>2. Trusted(r, c) => /\ content[c] # None /\ content[c].item \in Written(item, before)
                         /\ item = NoUrl => ~isIndexable(before)
                         /\ c \in settled => points[c] = PointsOf(before)
    BY <1>c, <2>1 DEF StageSound, RereadSound
  <2>3. CASE content[c] = None \/ ItemOf(c) = NoUrl
    <3>1. Done(r) /\ UNCHANGED job
      BY <1>3, <2>3 DEF UpdateReread
    <3>2. c \in settled => points[c] = PointsOf(ItemOf(c))
      <4> HAVE c \in settled
      <4>1. ItemOf(c) = NoUrl /\ NoUrl \in Written(item, before)
        BY <1>d, <2>2, <2>3 DEF ItemOf
      <4>2. ~isIndexable(before) /\ ~isIndexable(NoUrl)
        BY <1>d, <2>2, <4>1, WrittenItems, KbAssumption DEF isIndexable
      <4> QED
        BY <1>d, <2>2, <4>1, <4>2, NoPointsOf
    <3> QED
      BY <1>0, <1>b, <2>1, <3>1, <3>2, DoneKeeps
  <2>4. CASE ~(content[c] = None \/ ItemOf(c) = NoUrl)
    <3>1. Sends(r, c, Asked(req[r].item # req[r].seen[c], req[r].seen[c], content[c].item))
      BY <1>3, <2>4 DEF UpdateReread
    <3>2. UNCHANGED <<course, content, used>>
      BY <2>1 DEF rows
    <3>3. c \in used /\ content[c].item \in Items /\ content[c].item # NoUrl
      BY <1>a, <2>4 DEF KbInvariant, UsedSound, Row, ItemOf
    <3>4. PICK after \in Items : after = content[c].item
      BY <3>3
    <3>5. ItemOf(c)' = after
      BY <2>4, <3>2, <3>4 DEF ItemOf
    <3>6. PICK changed \in BOOLEAN : changed = (item # before)
      OBVIOUS
    <3>7. Sends(r, c, Asked(changed, before, after))
      BY <3>1, <3>4, <3>6
    <3>8. Trusted(r, c) => (~changed => before = after)
      <4> HAVE Trusted(r, c)
      <4>1. after \in Written(item, before) /\ after # NoUrl
        BY <2>2, <3>3, <3>4
      <4>2. /\ item # NoUrl => after = item
            /\ item = NoUrl => after = NoUrl \/ (after = Plain /\ before = Plain)
        BY <4>1, WrittenItems
      <4>3. ~changed => item = before
        BY <3>6
      <4> QED
        BY <4>1, <4>2, <4>3
    <3>9. c \in settled' => points[c] = PointsOf(before)
      BY <1>d, <2>1, <2>2
    <3>10. c \in settled' \/ r \in alone' => Trusted(r, c)
      BY <1>b, <2>1 DEF Trusted
    <3> QED
      BY <1>0, <1>b, <2>1, <2>4, <3>2, <3>3, <3>5, <3>7, <3>8, <3>9, <3>10, SendsKeeps
  <2> QED
    BY <2>3, <2>4
<1>4. CASE RemoveWrite(r, c)
  <2>1. /\ req[r].op = "remove" /\ req[r].step = "write" /\ content' = [content EXCEPT ![c] = None]
        /\ Sends(r, c, Asked(TRUE, req[r].seen[c], Plain))
        /\ UNCHANGED <<course, used, points, settled, alone>>
    BY <1>4 DEF RemoveWrite, observed
  <2>2. content'[c] = None /\ ItemOf(c)' = Plain /\ \A x \in Contents \ {c} : content'[x] = content[x]
    BY <1>a, <2>1 DEF ItemOf
  <2>3. c \in settled => points[c] = PointsOf(req[r].seen[c])
    <3>1. Trusted(r, c) => ItemOf(c) = req[r].seen[c]
      BY <1>c, <2>1 DEF StageSound, WriteSound, ItemOf
    <3> QED
      BY <1>d, <1>e, <2>1, <3>1
  <2> QED
    BY <1>0, <1>a, <1>b, <2>1, <2>2, <2>3, SendsKeeps
<1>5. CASE queueKbIndex(r, c)
  <2>1. /\ req[r].step = "queue" /\ Done(r) /\ UNCHANGED <<rows, points, settled, alone>>
        /\ job' = IF course THEN [job EXCEPT ![r][c] = req[r].call] ELSE job
    BY <1>5 DEF queueKbIndex, observed
  <2>2. UNCHANGED <<course, content, used>> /\ ItemOf(c)' = ItemOf(c)
    BY <2>1 DEF rows, ItemOf
  <2>3. req[r].call # NoJob /\ JobShape(req[r].call)
    BY <2>1 DEF KbInvariant, Shape
  <2>4. CASE course
    <3> PICK call : call = req[r].call
      OBVIOUS
    <3>1. req' = [req EXCEPT ![r] = Finished] /\ job' = [job EXCEPT ![r][c] = call]
      BY <2>1, <2>4 DEF Done
    <3>2. Trusted(r, c) => Fits(call, c)'
      <4>1. Trusted(r, c) => Fits(call, c)
        BY <1>c, <2>1 DEF StageSound
      <4> QED
        BY <2>1, <2>2, <4>1 DEF Fits
    <3>3. Finished.step = "done" /\ Finished.call = NoJob /\ JobShape(NoJob)
      BY DEF Finished, NoRequest, JobShape, NoJob
    <3>4. content'[c] # None => c \in used'
      BY <2>2 DEF KbInvariant, UsedSound
    <3>5. c \in settled' \/ r \in alone' => Trusted(r, c)
      BY <1>b, <2>1 DEF Trusted
    <3> QED
      BY <1>0, <1>b, <2>1, <2>2, <2>3, <3>1, <3>2, <3>3, <3>4, <3>5, ProceedKeeps
  <2>5. CASE ~course
    <3>1. c \notin settled
      BY <2>5 DEF KbInvariant, ClosedSound
    <3> QED
      BY <1>0, <1>b, <2>1, <2>5, <3>1, DoneKeeps
  <2> QED
    BY <2>4, <2>5
<1> QED
  BY <1>1, <1>2, <1>3, <1>4, <1>5 DEF Proceeds

\* The row of a content goes only with a request that works on it
LEMMA DeleteModuleWriteInv ==
    ASSUME KbInvariant, NEW r \in Requests, DeleteModuleWrite(r)
    PROVE  KbInvariant'
<1> DEFINE m == req[r].module
           seen == req[r].seen
<1>0. TypeOK'
  BY TypeRest DEF KbInvariant
<1>1. /\ req \in [Requests -> ReqRecord] /\ job \in [Requests -> [Contents -> Jobs]]
      /\ content \in [Contents -> Row \union {None}]
  BY DEF KbInvariant, TypeOK, ReqRecord, Seen, Row
<1>2. /\ req[r].op = "deleteModule" /\ req[r].step = "write"
      /\ req'[r] = Finished /\ \A q \in Requests \ {r} : req'[q] = req[q] /\ job'[q] = job[q]
      /\ UNCHANGED <<course, used, points, settled, alone>>
  BY <1>1 DEF DeleteModuleWrite, Done, observed
<1>3. \A x \in Contents : job'[r][x] = IF x \in DOMAIN seen /\ isIndexable(seen[x]) THEN Delete ELSE NoJob
  BY <1>1 DEF DeleteModuleWrite
<1>4. \A x \in Contents :
         content'[x] = IF content[x] # None /\ content[x].module = m THEN None ELSE content[x]
  BY <1>1 DEF DeleteModuleWrite
<1>5. /\ Finished.step = "done" /\ Finished.op = "none" /\ Finished.call = NoJob
      /\ DOMAIN Finished.seen = {}
  BY DEF Finished, NoRequest
<1> HIDE DEF m, seen
<1>6. \A k : \A q \in Requests : q \in Creates(k)' <=> q \in Creates(k)
  BY <1>2, <1>5 DEF Creates
<1>7. ASSUME NEW k, NEW x \in Contents PROVE
         x \in ContentsOf(k)' <=>
            x \in ContentsOf(k) /\ (x \in UNION {DOMAIN req[q].seen : q \in Creates(k)} \/ content'[x] # None)
  <2>1. \A q \in Creates(k) : q \in Requests /\ q # r
    BY <1>2 DEF Creates
  <2>2. \A q \in Creates(k)' : q \in Requests
    BY DEF Creates
  <2>3. (\E q \in Creates(k)' : x \in DOMAIN req'[q].seen) <=> (\E q \in Creates(k) : x \in DOMAIN req[q].seen)
    BY <1>2, <1>6, <2>1, <2>2
  <2> QED
    BY <1>4, <2>3 DEF ContentsOf
<1>8. \A x \in Contents : WorksOn(r, x) <=> x \in DOMAIN seen \/ x \in ContentsOf(m)
  BY <1>2 DEF WorksOn, KbInvariant, Shape, m, seen
<1>9. \A q \in Requests, x \in Contents : WorksOn(q, x)' => WorksOn(q, x)
  <2>1. \A x \in Contents : WorksOn(r, x)' => WorksOn(r, x)
    BY <1>2, <1>3, <1>5, <1>8 DEF WorksOn
  <2>2. \A q \in Requests \ {r}, x \in Contents : WorksOn(q, x)' => WorksOn(q, x)
    BY <1>2, <1>7 DEF WorksOn
  <2> QED
    BY <2>1, <2>2
<1>10. ASSUME NEW x \in Contents, ~WorksOn(r, x)
       PROVE  /\ content'[x] = content[x]
              /\ \A q \in Requests : WorksOn(q, x) => WorksOn(q, x)'
  <2>1. content'[x] = content[x]
    BY <1>4, <1>8, <1>10 DEF ContentsOf
  <2>2. \A k : x \in ContentsOf(k)' <=> x \in ContentsOf(k)
    BY <1>7, <2>1 DEF ContentsOf
  <2> QED
    BY <1>2, <1>10, <2>1, <2>2 DEF WorksOn
<1>11. \A q \in Requests, x \in Contents : Trusted(q, x)' => Trusted(q, x)
  BY <1>2, <1>9 DEF Trusted
<1>12. ASSUME NEW x \in Contents, Trusted(r, x)
       PROVE  /\ content[x] # None /\ content'[x] = None
              /\ x \in DOMAIN seen /\ content[x].item = seen[x]
  BY <1>2, <1>4, <1>12 DEF KbInvariant, TrustSound, StageSound, WriteSound, m, seen
<1>13. Solitary'
  BY <1>9, <1>11 DEF KbInvariant, Solitary
<1>14. TrustSound'
  <2> SUFFICES ASSUME NEW q \in Requests, NEW x \in Contents, Trusted(q, x)' PROVE StageSound(q, x)'
    BY DEF TrustSound
  <2>1. Trusted(q, x) /\ StageSound(q, x)
    BY <1>11 DEF KbInvariant, TrustSound
  <2>2. CASE q = r
    <3>1. ItemOf(x)' = Plain
      BY <1>12, <2>1, <2>2 DEF ItemOf
    <3>2. ~isIndexable(Plain)
      BY KbAssumption DEF isIndexable
    <3>3. Fits(job[r][x], x)'
      BY <1>3, <3>1, <3>2 DEF Fits, Delete, NoJob
    <3> QED
      BY <1>2, <1>5, <2>2, <3>3 DEF StageSound
  <2>3. CASE q # r
    <3>1. ~WorksOn(r, x)
      BY <2>1, <2>3 DEF KbInvariant, Solitary
    <3>2. content'[x] = content[x] /\ ItemOf(x)' = ItemOf(x)
      BY <1>10, <3>1 DEF ItemOf
    <3> QED
      BY <1>2, <2>1, <2>3, <3>2 DEF StageSound, WriteSound, RereadSound, Fits
  <2> QED
    BY <2>2, <2>3
<1>15. Kept'
  <2> SUFFICES ASSUME NEW x \in settled', Untouched(x)' PROVE (points[x] = PointsOf(ItemOf(x)))'
    BY DEF Kept
  <2>1. x \in settled /\ x \in Contents
    BY <1>2 DEF KbInvariant, TypeOK
  <2>2. CASE WorksOn(r, x)
    <3>1. Trusted(r, x)
      BY <2>1, <2>2 DEF Trusted
    <3>2. Untouched(x)
      BY <1>2, <2>1, <3>1 DEF KbInvariant, Solitary, Untouched
    <3>3. points[x] = PointsOf(seen[x])
      BY <1>12, <2>1, <3>1, <3>2 DEF KbInvariant, Kept, ItemOf
    <3>4. job'[r][x] = NoJob
      BY <1>2, <1>5, <2>1 DEF Untouched, WorksOn
    <3>5. ~isIndexable(seen[x])
      BY <1>3, <1>12, <2>1, <3>1, <3>4 DEF Delete, NoJob
    <3>6. ItemOf(x)' = Plain /\ ~isIndexable(Plain)
      BY <1>12, <2>1, <3>1, KbAssumption DEF ItemOf, isIndexable
    <3> QED
      BY <1>2, <3>3, <3>5, <3>6, NoPointsOf DEF PointsOf
  <2>3. CASE ~WorksOn(r, x)
    <3>1. content'[x] = content[x] /\ ItemOf(x)' = ItemOf(x)
      BY <1>10, <2>1, <2>3 DEF ItemOf
    <3>2. Untouched(x)
      BY <1>2, <1>10, <2>1, <2>3 DEF Untouched
    <3> QED
      BY <1>2, <2>1, <3>1, <3>2 DEF KbInvariant, Kept, PointsOf
  <2> QED
    BY <2>2, <2>3
<1>16. \A q \in Requests : Shape(q)'
  <2>1. \A q \in Requests \ {r} : Shape(q)'
    BY <1>2 DEF KbInvariant, Shape, InFlight, JobShape
  <2>2. Shape(r)'
    BY <1>2, <1>3, <1>5 DEF Shape, InFlight, JobShape, Delete, NoJob
  <2> QED
    BY <2>1, <2>2
<1>17. UsedSound' /\ ClosedSound'
  BY <1>2, <1>4 DEF KbInvariant, UsedSound, ClosedSound
<1> QED
  BY <1>0, <1>13, <1>14, <1>15, <1>16, <1>17 DEF KbInvariant

\* A request that dies before it has written leaves everything as it was; one that dies later
\* is not trusted with a content any more.
LEMMA AbortInv ==
    ASSUME KbInvariant, NEW r \in Requests, Abort(r)
    PROVE  KbInvariant'
<1>0. TypeOK'
  BY TypeRest DEF KbInvariant
<1>1. /\ req'[r] = Finished /\ \A q \in Requests \ {r} : req'[q] = req[q]
      /\ InFlight(r) /\ UNCHANGED <<course, content, used, job, points>>
  BY DEF Abort, Done, rows, KbInvariant, TypeOK
<1>2. /\ Finished.step = "done" /\ Finished.op = "none" /\ Finished.call = NoJob
      /\ DOMAIN Finished.seen = {}
  BY DEF Finished, NoRequest
<1>3. \A x \in Contents : job[r][x] = NoJob
  BY <1>1 DEF KbInvariant, Shape, InFlight
<1>4. /\ settled' \subseteq settled /\ alone' \subseteq alone
      /\ req[r].step # "write" => settled' = settled \ DOMAIN req[r].seen
  BY DEF Abort
<1>5. ASSUME NEW k, NEW x
      PROVE  /\ x \in ContentsOf(k)' => x \in ContentsOf(k)
             /\ x \in ContentsOf(k) => x \in ContentsOf(k)' \/ x \in DOMAIN req[r].seen
  <2>1. x \in ContentsOf(k) <=>
          \/ x \in Contents /\ content[x] # None /\ content[x].module = k
          \/ \E q \in Requests : req[q].op = "create" /\ req[q].module = k /\ x \in DOMAIN req[q].seen
    BY DEF ContentsOf, Creates
  <2>2. x \in ContentsOf(k)' <=>
          \/ x \in Contents /\ content'[x] # None /\ content'[x].module = k
          \/ \E q \in Requests : req'[q].op = "create" /\ req'[q].module = k /\ x \in DOMAIN req'[q].seen
    BY DEF ContentsOf, Creates
  <2>3. \A q \in Requests : req'[q].op = "create" => q # r /\ req'[q] = req[q]
    BY <1>1, <1>2
  <2> QED
    BY <1>1, <2>1, <2>2, <2>3
<1>6. \A x \in Contents : ~WorksOn(r, x)'
  BY <1>1, <1>2, <1>3 DEF WorksOn
<1>7. \A q \in Requests, x \in Contents : WorksOn(q, x)' => WorksOn(q, x)
  BY <1>1, <1>5, <1>6 DEF WorksOn
<1>8. \A q \in Requests, x \in Contents : Trusted(q, x)' => Trusted(q, x) /\ q # r
  BY <1>4, <1>6, <1>7 DEF Trusted
<1>9. Solitary'
  BY <1>7, <1>8 DEF KbInvariant, Solitary
<1>10. TrustSound'
  <2> SUFFICES ASSUME NEW q \in Requests, NEW x \in Contents, Trusted(q, x)' PROVE StageSound(q, x)'
    BY DEF TrustSound
  <2>1. Trusted(q, x) /\ StageSound(q, x) /\ q # r
    BY <1>8 DEF KbInvariant, TrustSound
  <2>2. ItemOf(x)' = ItemOf(x)
    BY <1>1 DEF ItemOf
  <2> QED
    BY <1>1, <1>4, <2>1, <2>2 DEF StageSound, WriteSound, RereadSound, Fits
<1>11. Kept'
  <2> SUFFICES ASSUME NEW x \in settled', Untouched(x)' PROVE (points[x] = PointsOf(ItemOf(x)))'
    BY DEF Kept
  <2>1. x \in settled /\ x \in Contents
    BY <1>4 DEF KbInvariant, TypeOK
  <2>2. Untouched(x)
    <3> SUFFICES ASSUME NEW q \in Requests, WorksOn(q, x) PROVE req[q].step = "write"
      BY DEF Untouched
    <3>1. CASE q = r
      <4>1. req[r].step # "write" => req[r].op # "deleteModule" /\ x \notin DOMAIN req[r].seen
        BY <1>1, <1>4 DEF KbInvariant, Shape, InFlight, TypeOK
      <4> QED
        BY <1>3, <2>1, <3>1, <4>1 DEF WorksOn
    <3>2. CASE q # r
      <4>1. Trusted(q, x)
        BY <2>1 DEF Trusted
      <4>2. ~WorksOn(r, x)
        BY <2>1, <3>2, <4>1 DEF KbInvariant, Solitary
      <4>3. x \notin DOMAIN req[r].seen
        BY <4>2 DEF WorksOn
      <4>4. WorksOn(q, x)'
        BY <1>1, <1>5, <3>2, <4>3 DEF WorksOn
      <4> QED
        BY <1>1, <3>2, <4>4 DEF Untouched
    <3> QED
      BY <3>1, <3>2
  <2> QED
    BY <1>1, <2>1, <2>2 DEF KbInvariant, Kept, ItemOf
<1>12. \A q \in Requests : Shape(q)'
  <2>1. \A q \in Requests \ {r} : Shape(q)'
    BY <1>1, <1>4 DEF KbInvariant, Shape, InFlight, JobShape
  <2>2. Shape(r)'
    BY <1>1, <1>2, <1>3 DEF Shape, InFlight, JobShape, NoJob
  <2> QED
    BY <2>1, <2>2
<1>13. UsedSound' /\ ClosedSound'
  BY <1>1, <1>4 DEF KbInvariant, UsedSound, ClosedSound
<1> QED
  BY <1>0, <1>9, <1>10, <1>11, <1>12, <1>13 DEF KbInvariant

LEMMA DeleteCourseInv ==
    ASSUME KbInvariant, deleteCourse
    PROVE  KbInvariant'
<1>0. TypeOK'
  BY TypeRest DEF KbInvariant
<1>1. settled' = {} /\ alone' = {} /\ UNCHANGED <<used, req, job>> /\ \A c \in Contents : content'[c] = None
  BY DEF deleteCourse
<1>2. Solitary' /\ TrustSound' /\ Kept'
  BY <1>1 DEF Trusted, Solitary, TrustSound, Kept
<1>3. \A q \in Requests : Shape(q)'
  BY <1>1 DEF KbInvariant, Shape, InFlight, JobShape
<1> QED
  BY <1>0, <1>1, <1>2, <1>3 DEF KbInvariant, UsedSound, ClosedSound

\* Searches and the cache touch nothing that the invariant is about
LEMMA SearchInv ==
    ASSUME KbInvariant, TypeOK', UNCHANGED <<rows, req, job, points, observed>>
    PROVE  KbInvariant'
<1>1. UNCHANGED <<course, content, used, settled, alone>>
  BY DEF rows, observed
<1>2. \A q \in Requests, c \in Contents : WorksOn(q, c)' <=> WorksOn(q, c)
  BY <1>1 DEF WorksOn, ContentsOf, Creates
<1>3. \A q \in Requests, c \in Contents : Trusted(q, c)' <=> Trusted(q, c)
  BY <1>1, <1>2 DEF Trusted
<1>4. Solitary'
  BY <1>2, <1>3 DEF KbInvariant, Solitary
<1>5. TrustSound'
  BY <1>1, <1>3 DEF KbInvariant, TrustSound, StageSound, WriteSound, RereadSound, Fits, ItemOf
<1>6. Kept'
  <2> SUFFICES ASSUME NEW c \in settled', Untouched(c)' PROVE (points[c] = PointsOf(ItemOf(c)))'
    BY DEF Kept
  <2>1. c \in settled /\ c \in Contents
    BY <1>1 DEF KbInvariant, TypeOK
  <2>2. Untouched(c)
    BY <1>2, <2>1 DEF Untouched
  <2> QED
    BY <1>1, <2>1, <2>2 DEF KbInvariant, Kept, ItemOf
<1>7. \A q \in Requests : Shape(q)'
  BY <1>1 DEF KbInvariant, Shape, InFlight, JobShape
<1> QED
  BY <1>1, <1>4, <1>5, <1>6, <1>7 DEF KbInvariant, UsedSound, ClosedSound

LEMMA InvStep == KbInvariant /\ [Next]_vars => KbInvariant'
<1> SUFFICES ASSUME KbInvariant, [Next]_vars PROVE KbInvariant'
  OBVIOUS
<1>0. TypeOK'
  BY TypeStep DEF KbInvariant
<1>1. ASSUME NEW r \in Requests, NEW c \in Contents,
             create(r, c) \/ update(r, c) \/ remove(r, c) \/ Proceeds(r, c) \/ Works(r, c) \/ JobFails(r, c)
      PROVE  KbInvariant'
  BY <1>1, CreateInv, UpdateInv, ProceedInv, JobInv
<1>2. ASSUME NEW r \in Requests, NEW m \in Modules, deleteModule(r, m) PROVE KbInvariant'
  BY <1>2, DeleteModuleInv
<1>3. ASSUME NEW r \in Requests, DeleteModuleWrite(r) \/ Abort(r) PROVE KbInvariant'
  BY <1>3, DeleteModuleWriteInv, AbortInv
<1>4. CASE deleteCourse
  BY <1>4, DeleteCourseInv
<1>5. ASSUME NEW s \in Searches, search_course(s) \/ _cache_set(s) PROVE KbInvariant'
  BY <1>0, <1>5, SearchInv DEF search_course, _cache_set
<1>6. CASE CacheExpires
  BY <1>0, <1>6, SearchInv DEF CacheExpires
<1>7. CASE UNCHANGED vars
  BY <1>0, <1>7, SearchInv DEF vars
<1> QED
  BY <1>1, <1>2, <1>3, <1>4, <1>5, <1>6, <1>7 DEF Next

LEMMA InvGivesKb == KbInvariant => KbFollowsRows
<1> SUFFICES ASSUME KbInvariant, NEW c \in settled, ~Busy(c) PROVE points[c] = PointsOf(ItemOf(c))
  BY DEF KbFollowsRows
<1>1. Untouched(c)
  BY DEF Untouched, Busy
<1> QED
  BY <1>1 DEF KbInvariant, Kept

\* For any contents, files, numbers of batches, requests and failures: a content whose requests
\* did not meet or fail, or one of whose requests has since run alone to its end, has in the
\* knowledge base the whole of the file in its row and nothing of any other, or nothing at all
\* if the row is gone or holds no file (course.service.ts:185-199, 230-247, 315-344, 358-367,
\* course_kb.py:349-384).
THEOREM KbFollowsRowsHolds == Spec => []KbFollowsRows
<1>1. Spec => []KbInvariant
  BY InvInit, InvStep, PTL DEF Spec
<1> QED
  BY <1>1, InvGivesKb, PTL

==============================================================================
