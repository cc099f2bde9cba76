---------------------------- MODULE BatchService ----------------------------
(***************************************************************************)
(* What the scheduler promises its users, with no blocks, ids or tables:   *)
(* requests wait in the order they arrived, start in that order, and every *)
(* round of decoding gives each running request exactly one token, until   *)
(* it ends.  Scheduler is shown to implement it.                           *)
(*                                                                         *)
(* A request is named by its place in the order of arrival.                *)
(***************************************************************************)
EXTENDS Integers, Sequences, FiniteSets

CONSTANT MaxConcurrent, Reqs

VARIABLES waiting, \* a sequence of [no, req]
          running, \* running[no] = [req, produced]
          done     \* done[no] = [req, produced, eos]

serviceVars == <<waiting, running, done>>

ServiceInit == waiting = <<>> /\ running = <<>> /\ done = <<>>

Arrived == Len(waiting) + Cardinality(DOMAIN running) + Cardinality(DOMAIN done)

Arrive(req) ==
  /\ waiting' = Append(waiting, [no |-> Arrived, req |-> req])
  /\ UNCHANGED <<running, done>>

\* The k requests that have waited longest start.
Start(k) ==
  /\ Cardinality(DOMAIN running) + k <= MaxConcurrent
  /\ waiting' = SubSeq(waiting, k + 1, Len(waiting))
  /\ DOMAIN running' = DOMAIN running \cup {waiting[i].no : i \in 1 .. k}
  /\ \A n \in DOMAIN running : running'[n] = running[n]
  /\ \A i \in 1 .. k :
       running'[waiting[i].no] = [req |-> waiting[i].req, produced |-> 0]
  /\ UNCHANGED done

\* Every running request is given a token.  One that reaches its limit ends;
\* others may (end of sequence, or no room for their next token).
Round(ending, eos) ==
  /\ \A n \in DOMAIN running :
       running[n].produced + 1 >= running[n].req.max_new => n \in ending
  /\ eos \subseteq ending
  /\ running' = [n \in DOMAIN running \ ending |->
                   [running[n] EXCEPT !.produced = @ + 1]]
  /\ done' = [n \in DOMAIN done \cup ending |->
                IF n \in ending
                THEN [req      |-> running[n].req,
                      produced |-> running[n].produced + 1,
                      eos      |-> n \in eos]
                ELSE done[n]]
  /\ UNCHANGED waiting

ServiceNext ==
  \/ \E req \in Reqs : Arrive(req)
  \/ \E k \in 1 .. Len(waiting) : Start(k)
  \/ \E ending \in SUBSET DOMAIN running : \E eos \in SUBSET ending : Round(ending, eos)

Spec == ServiceInit /\ [][ServiceNext]_serviceVars
=============================================================================
