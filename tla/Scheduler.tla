----------------------------- MODULE Scheduler -----------------------------
(***************************************************************************)
(* The continuous-batching scheduler of src/src/runtime/scheduler.{hpp,    *)
(* cpp}, its calls into the cache manager, and the driver loop its header  *)
(* prescribes:                                                             *)
(*                                                                         *)
(*     while (has_work()) { prepare_step(); <decode>; commit_step(...); }  *)
(*                                                                         *)
(* Requests may be submitted at any moment, while a step is being decoded  *)
(* included.  Which requests hit their end-of-sequence token in a step is  *)
(* the model's business and is left open.                                  *)
(*                                                                         *)
(* Request ids are recycled, so every submission also has a serial number  *)
(* no.  It, submitted and finished are histories, not program state.       *)
(***************************************************************************)
EXTENDS CacheManager

CONSTANTS MaxConcurrent, \* max_concurrent_
          PromptLengths, \* the prompt lengths requests come with
          NewTokens,     \* the max_new_tokens requests come with
          MaxSubmit      \* bound: requests submitted

ASSUME WorkloadAssumption ==
  /\ MaxConcurrent \in Nat /\ MaxSubmit \in Nat
  /\ PromptLengths \subseteq Nat /\ NewTokens \subseteq Int

VARIABLES
  mgr,          \* *mgr_
  queue,        \* queue_: requests waiting, oldest first
  active,       \* active_: the requests being decoded, by id
  active_order, \* active_order_
  generated,    \* generated_: tokens decoded, by id of a completed request
  stepping,     \* the driver is between prepare_step and commit_step ...
  view,         \* ... and holds this ActiveStep
  submitted,    \* how many requests were submitted
  finished      \* how each finished request ended, by serial number

history == <<submitted, finished>>
vars == <<mgr, queue, active, active_order, generated, stepping, view, history>>

Requests == [prompt : PromptLengths, max_new : NewTokens]

HasWork == queue # <<>> \/ active # <<>>

EmptyView == [ids |-> <<>>, seq_lens |-> <<>>, block_tables |-> <<>>, max_blocks |-> 0]

Init ==
  /\ mgr = InitManager
  /\ queue = <<>> /\ active = <<>> /\ active_order = <<>> /\ generated = <<>>
  /\ stepping = FALSE /\ view = EmptyView
  /\ submitted = 0 /\ finished = <<>>

---------------------------------------------------------------------------
(* submit *)

Submit(req) ==
  /\ submitted < MaxSubmit
  /\ mgr' = CreateRequest(mgr)
  /\ queue' = Append(queue, [id |-> FreshId(mgr), req |-> req, no |-> submitted])
  /\ submitted' = submitted + 1
  /\ UNCHANGED <<active, active_order, generated, stepping, view, finished>>

---------------------------------------------------------------------------
(* prepare_step *)

\* Mutants: no decode slot is reserved; all the tokens to come are.
NeededNoSlot(e) == e.req.prompt
NeededAll(e) == e.req.prompt + 1 + e.req.max_new

\* The tokens try_admit_one reserves: the prompt and one decode slot.
Needed(e) == e.req.prompt + 1

\* The manager after try_admit_one on the first i requests of the queue, as
\* far as each of them could be covered.
Admitting ==
  LET after[i \in 0 .. Len(queue)] ==
        IF i = 0 THEN mgr
        ELSE SetSeqLen(EnsureCapacity(after[i - 1], queue[i].id, Needed(queue[i])),
                       queue[i].id, queue[i].req.prompt)
  IN  after

\* The admission loop can get past the first k requests of the queue.
Admissible(k) ==
  \A i \in 1 .. k :
    /\ Cardinality(DOMAIN active) + i - 1 < MaxConcurrent
    /\ CanCover(Admitting[i - 1], queue[i].id, Needed(queue[i]))

NumAdmitted == Max({k \in 0 .. Len(queue) : Admissible(k)})

\* Mutant: the width of the last row for all.
WidestLast(m, order) == IF order = <<>> THEN 0 ELSE Len(Table(m, Last(order)))

Widest(m, order) == Max({0} \cup {Len(Table(m, order[i])) : i \in DOMAIN order})

\* The ActiveStep for the requests of order: their tables as the rows of one
\* array of width max_blocks, in row-major order, the short rows padded.
ViewOf(m, order) ==
  LET w == Widest(m, order)
      Cell(row, col) == IF col <= Len(Table(m, order[row]))
                        THEN Table(m, order[row])[col] ELSE kInvalidBlock
  IN  [ids          |-> order,
       seq_lens     |-> [i \in DOMAIN order |-> m.requests[order[i]].seq_len],
       block_tables |-> [c \in 1 .. Len(order) * w |->
                           Cell(((c - 1) \div w) + 1, ((c - 1) % w) + 1)],
       max_blocks   |-> w]

PrepareStep ==
  /\ ~ stepping /\ HasWork
  /\ \E k \in {NumAdmitted} :
       /\ mgr' = Admitting[k]
       /\ active' = [id \in DOMAIN active \cup {queue[i].id : i \in 1 .. k} |->
                       IF id \in DOMAIN active THEN active[id]
                       ELSE LET e == queue[CHOOSE i \in 1 .. k : queue[i].id = id]
                            IN  [req |-> e.req, produced |-> 0, no |-> e.no]]
       /\ active_order' = active_order \o [i \in 1 .. k |-> queue[i].id]
       /\ queue' = SubSeq(queue, k + 1, Len(queue))
  /\ view' = ViewOf(mgr', active_order')
  /\ stepping' = TRUE
  /\ UNCHANGED <<generated, history>>

---------------------------------------------------------------------------
(* commit_step *)

\* The request has decoded one token more ...
Produced(s, id) == s.active[id].produced + 1

\* ... and the cache is to hold one token more if it goes on.
NewLen(s, id) == s.mgr.requests[id].seq_len + 1

\* Mutant: one token past the limit.
EndsLate(s, id, eos) ==
  \/ eos
  \/ Produced(s, id) > s.active[id].req.max_new
  \/ ~ CanCover(s.mgr, id, NewLen(s, id) + 1)

\* It ends when completed, at its limit, or when the slot for the token after
\* the next cannot be covered.
Ends(s, id, eos) ==
  \/ eos
  \/ Produced(s, id) >= s.active[id].req.max_new
  \/ ~ CanCover(s.mgr, id, NewLen(s, id) + 1)

Finishing(s, id, eos) ==
  [n \in DOMAIN s.finished \cup {s.active[id].no} |->
     IF n = s.active[id].no
     THEN [req |-> s.active[id].req, produced |-> Produced(s, id), eos |-> eos]
     ELSE s.finished[n]]

\* Mutant: the manager is not told.
EndUnreleased(s, id, eos) ==
  [mgr       |-> s.mgr,
   active    |-> Restrict(s.active, DOMAIN s.active \ {id}),
   generated |-> (id :> Produced(s, id)) @@ s.generated,
   survivors |-> s.survivors,
   finished  |-> Finishing(s, id, eos)]

\* Its blocks go back at once, for the requests after it in the order.
End(s, id, eos) ==
  [mgr       |-> ReleaseRequest(s.mgr, id),
   active    |-> Restrict(s.active, DOMAIN s.active \ {id}),
   generated |-> (id :> Produced(s, id)) @@ s.generated,
   survivors |-> s.survivors,
   finished  |-> Finishing(s, id, eos)]

Continue(s, id) ==
  [mgr       |-> SetSeqLen(EnsureCapacity(s.mgr, id, NewLen(s, id) + 1), id, NewLen(s, id)),
   active    |-> [s.active EXCEPT ![id].produced = Produced(s, id)],
   generated |-> s.generated,
   survivors |-> Append(s.survivors, id),
   finished  |-> s.finished]

\* The states of the loop over active_order: Committing(completed)[i] is the
\* one after i requests.
Committing(completed) ==
  LET after[i \in 0 .. Len(active_order)] ==
        IF i = 0
        THEN [mgr |-> mgr, active |-> active, generated |-> generated,
              survivors |-> <<>>, finished |-> finished]
        ELSE LET s   == after[i - 1]
                 id  == active_order[i]
                 eos == id \in completed
             IN  IF id \notin DOMAIN s.active THEN s
                 ELSE IF Ends(s, id, eos) THEN End(s, id, eos)
                 ELSE Continue(s, id)
  IN  after

CommitStep(completed) ==
  /\ stepping
  /\ \E s \in {Committing(completed)[Len(active_order)]} :
       /\ mgr' = s.mgr
       /\ active' = s.active
       /\ generated' = s.generated
       /\ active_order' = s.survivors
       /\ finished' = s.finished
  /\ stepping' = FALSE
  /\ view' = EmptyView
  /\ UNCHANGED <<queue, submitted>>

---------------------------------------------------------------------------
Commit == \E completed \in SUBSET DOMAIN active : CommitStep(completed)

Next == (\E req \in Requests : Submit(req)) \/ PrepareStep \/ Commit

\* The driver's loop goes on as long as has_work() says so.
Fairness == WF_vars(PrepareStep) /\ WF_vars(Commit)

Spec == Init /\ [][Next]_vars /\ Fairness

---------------------------------------------------------------------------
(* Properties *)

Queued == {queue[i].id : i \in DOMAIN queue}

\* Every request the manager knows is either waiting, and then holds no block
\* (prepare_step admits a request whole or not at all), or active, and then
\* in the order exactly once; none is both, none is forgotten.
LifecycleConsistent ==
  /\ DOMAIN mgr.requests = Queued \cup DOMAIN active
  /\ Queued \cap DOMAIN active = {}
  /\ \A i, j \in DOMAIN queue : queue[i].id = queue[j].id => i = j
  /\ \A id \in Queued : mgr.requests[id] = NoBlocks
  /\ IsInjective(active_order) /\ ToSet(active_order) = DOMAIN active
  /\ Cardinality(DOMAIN active) <= MaxConcurrent

\* Through every admission, growth, completion and early completion no block
\* leaks and none is given to two requests: it is free, or it is one entry of
\* one active request's table.
BlocksPartitioned ==
  /\ FreeListExact(mgr)
  /\ \A b \in Block :
       Cardinality(Slots(mgr.requests, b)) = IF b \in ToSet(mgr.free_list) THEN 0 ELSE 1

\* An active request always has room for its next token and not a block more:
\* seq_len, which both methods set, stays prompt plus decoded tokens.
DecodeSlotReserved ==
  \A id \in DOMAIN active :
    LET len == mgr.requests[id].seq_len
        n   == Len(Table(mgr, id))
    IN  /\ len = active[id].req.prompt + active[id].produced
        /\ (n - 1) * BlockSize <= len /\ len < n * BlockSize

\* The block the attention kernel finds for position pos of request row.
KernelBlock(row, pos) ==
  view.block_tables[(row - 1) * view.max_blocks + (pos \div BlockSize) + 1]

\* Until it commits, the driver can use the view it was given, whatever is
\* submitted meanwhile: for each of its requests, every position up to and
\* including the decode slot is in the block the manager has it in, and the
\* block of the decode slot is not in any other row.
ViewCurrent ==
  stepping =>
    /\ view.ids = active_order
    /\ \A row \in DOMAIN view.ids :
         /\ view.seq_lens[row] = mgr.requests[view.ids[row]].seq_len
         /\ \A pos \in 0 .. view.seq_lens[row] :
              KernelBlock(row, pos) = Table(mgr, view.ids[row])[(pos \div BlockSize) + 1]
         /\ \A other \in DOMAIN view.ids \ {row} : \A col \in 1 .. view.max_blocks :
              KernelBlock(row, view.seq_lens[row])
                # view.block_tables[(other - 1) * view.max_blocks + col]

\* A reader of generated(id) never sees another request's count: it is 0 or
\* the tokens id itself has decoded.  (scheduler.hpp calls it the "Per-request
\* total decoded tokens"; requests are released and their ids reused.)
GeneratedIsOwn ==
  \A id \in DOMAIN generated \cap DOMAIN mgr.requests :
    generated[id] = IF id \in DOMAIN active THEN active[id].produced ELSE 0

\* A request that ends without its end of sequence and short of its limit was
\* cut by the pool; that cannot happen when the pool has room for as many of
\* the largest requests as may be active.
TokensOf(r) == r.prompt + (IF r.max_new > 1 THEN r.max_new ELSE 1)
AmplePool == \A r \in Requests : MaxConcurrent * BlocksFor(TokensOf(r)) <= NumBlocks
NeverCutShort ==
  AmplePool =>
    \A n \in DOMAIN finished :
      finished[n].eos \/ finished[n].produced >= finished[n].req.max_new

\* Hiding ids, blocks and the snapshot, the scheduler is a first-come service
\* that decodes one token for every running request in every round.
Waiting == [i \in DOMAIN queue |-> [no |-> queue[i].no, req |-> queue[i].req]]
ById(n) == CHOOSE id \in DOMAIN active : active[id].no = n
Running == [n \in {active[id].no : id \in DOMAIN active} |->
              [req |-> active[ById(n)].req, produced |-> active[ById(n)].produced]]
Service == INSTANCE BatchService
             WITH waiting <- Waiting, running <- Running, done <- finished, Reqs <- Requests
ServiceRefined == Service!Spec

\* A prompt that can never fit is never refused: when it comes to the head it
\* stays there for good, has_work() with it, and holds up all that come later.
\* Nothing else can: who is submitted finishes, or waits at such a prompt.
Oversize(e) == BlocksFor(e.req.prompt + 1) > NumBlocks
ServedUnlessBlocked ==
  \A n \in 0 .. MaxSubmit - 1 :
    submitted > n ~> \/ n \in DOMAIN finished
                     \/ queue # <<>> /\ Oversize(queue[1]) /\ queue[1].no <= n
=============================================================================
