----------------------- MODULE PipelineScopes_proofs -----------------------
(***************************************************************************)
(* Proofs about the rows of analysis_pipeline: their types, the partial    *)
(* unique index, what a dispatch reads and what a confirmation locks in,   *)
(* for any number of scopes, requests, tiers, submissions and pipelines;   *)
(* and about roles and scopes: what holds for any users, programs,         *)
(* departments and roles, and however requests, logins and the             *)
(* synchronisation interleave.                                             *)
(***************************************************************************)
EXTENDS PipelineScopes, ScopeAccess, FiniteSetTheorems, WellFoundedInduction,
        TLAPS

USE ScopeAssumption DEF ScopeAssumption

\* A set of numbers up to a bound has a greatest one, which Max finds.
LEMMA MaxIsGreatest ==
  ASSUME NEW n \in Nat, NEW S \in SUBSET (0..n), S # {}
  PROVE  Max(S) \in S /\ \A x \in S : x <= Max(S)
<1> DEFINE T == {n - x : x \in S}
<1>1. T \subseteq Nat /\ T # {}
  <2>1. T \subseteq Nat
    OBVIOUS
  <2>2. PICK x \in S : TRUE
    OBVIOUS
  <2>3. n - x \in T
    BY <2>2
  <2> QED BY <2>1, <2>3
<1>2. PICK m \in T : \A y \in T : ~(<<y, m>> \in OpToRel(<, Nat))
  <2> HIDE DEF T
  <2> QED BY <1>1, NatLessThanWellFounded, WFMin
<1>3. \A y \in T : m <= y
  <2>1. ASSUME NEW y \in T PROVE m <= y
    <3>1. y \in Nat /\ m \in Nat
      BY <1>1
    <3>2. ~(y < m)
      BY <1>2, <3>1 DEF OpToRel
    <3> QED BY <3>1, <3>2
  <2> QED BY <2>1
<1>4. \E x \in S : \A y \in S : x >= y
  <2>1. PICK x \in S : m = n - x
    BY DEF T
  <2>2. \A y \in S : n - x <= n - y
    BY <1>3, <2>1
  <2> QED BY <2>1, <2>2
<1> QED BY <1>4 DEF Max

\* Counting comments gives a number of submissions.
LEMMA CommentCountType ==
  ASSUME nposted \in Time, NEW key
  PROVE  CommentCount(key) \in Time
<1> DEFINE C == {i \in 1..nposted : InScope(i, key) /\ subs[i].comment # "none"}
<1>1. nposted \in Nat /\ nposted <= MaxPosts
  BY DEF Time
<1>2. IsFiniteSet(1..nposted) /\ Cardinality(1..nposted) = nposted
  BY <1>1, FS_Interval
<1>3. IsFiniteSet(C) /\ Cardinality(C) <= nposted
  <2>1. C \in SUBSET (1..nposted)
    OBVIOUS
  <2>2. \A S \in SUBSET (1..nposted) :
          IsFiniteSet(S) /\ Cardinality(S) <= Cardinality(1..nposted)
    BY <1>2, FS_Subset
  <2>3. IsFiniteSet(C) /\ Cardinality(C) <= Cardinality(1..nposted)
    BY ONLY <2>1, <2>2
  <2> QED BY <1>2, <2>3
<1>4. Cardinality(C) \in Nat
  BY <1>3, FS_CardinalityType
<1> HIDE DEF C
<1>5. Cardinality(C) \in 0..MaxPosts
  BY <1>1, <1>3, <1>4
<1> QED BY <1>5 DEF CommentCount, Time, C

-----------------------------------------------------------------------------
(* Types.                                                                  *)

\* A step that is about a key has one, a step that is about a row has one, and
\* only a request refreshes the coverage of a row.
WellFormed(a, r, n) ==
  /\ r.pc \in {"find", "insert", "refetch"} => r.key \in Key
  /\ r.pc \in {"complete", "confirm", "confirmed", "dispatch", "covered",
               "viewed", "cancelling"} => r.pipe \in 1..n
  /\ r.pc = "covered" => a \in Caller

ActorsInv ==
  /\ act \in [Actor -> ActRecord]
  /\ \A a \in Actor : WellFormed(a, act[a], npipes)

RowsInv ==
  /\ npipes \in 0..MaxPipes
  /\ pipe \in [Pipe -> PipeRecord \cup {NoPipe}]
  /\ \A p \in Pipe : IF p <= npipes THEN pipe[p] \in PipeRecord ELSE pipe[p] = NoPipe

PostsInv ==
  /\ nposted \in Time
  /\ subs \in [1..MaxPosts -> SubmissionRecord \cup {NoSubmission}]
  /\ \A i \in 1..MaxPosts :
       IF i <= nposted THEN subs[i] \in SubmissionRecord
                       ELSE subs[i] = NoSubmission

BoundsInv ==
  /\ running \in [Tier -> BOOLEAN]
  /\ requests \in 0..MaxRequests /\ faults \in 0..MaxFaults

TypeInv == ActorsInv /\ RowsInv /\ PostsInv /\ BoundsInv

\* The strengthened invariant implies the types that the runs check.
LEMMA TypeInvTyped == TypeInv => ScopesTypeOK
BY DEF TypeInv, ActorsInv, RowsInv, PostsInv, BoundsInv, ScopesTypeOK

\* What is known of the record of an actor.
LEMMA ActorFields ==
  ASSUME ActorsInv, NEW a \in Actor
  PROVE  /\ act[a] \in ActRecord
         /\ act[a].pc \in {"idle", "next", "find", "insert", "refetch",
              "complete", "confirm", "confirmed", "dispatch", "covered",
              "viewed", "cancelling"}
         /\ act[a].key \in Key \cup {NoKey}
         /\ act[a].pipe \in 0..MaxPipes
         /\ act[a].count \in Time
         /\ act[a].todo \in SUBSET (Scope \X Time)
         /\ act[a] = [pc |-> act[a].pc, key |-> act[a].key, pipe |-> act[a].pipe,
                      count |-> act[a].count, todo |-> act[a].todo]
         /\ WellFormed(a, act[a], npipes)
BY DEF ActorsInv, ActRecord

\* An actor that does nothing, or goes on with the list of its tier.
LEMMA IdleRecord ==
  /\ Idle \in ActRecord
  /\ \A a, n : WellFormed(a, Idle, n)
  /\ ActorsInv => \A a \in Actor : \A n :
       Left(a) \in ActRecord /\ WellFormed(a, Left(a), n)
<1>1. Idle \in ActRecord
  BY DEF Idle, ActRecord, Time
<1>2. \A a, n : WellFormed(a, Idle, n)
  BY DEF Idle, WellFormed
<1>3. ASSUME ActorsInv, NEW a \in Actor, NEW n
      PROVE  Left(a) \in ActRecord /\ WellFormed(a, Left(a), n)
  <2> DEFINE next == [Idle EXCEPT !.pc = "next", !.todo = act[a].todo]
  <2>1. Left(a) = IF a \in Caller THEN Idle ELSE next
    BY DEF Left
  <2>2. act[a].todo \in SUBSET (Scope \X Time)
    BY <1>3, ActorFields
  <2>3. next \in ActRecord
    BY <1>1, <2>2 DEF ActRecord
  <2>4. next.pc = "next"
    BY <1>1 DEF ActRecord
  <2>5. WellFormed(a, next, n)
    BY <2>4 DEF WellFormed
  <2> QED BY <1>1, <1>2, <2>1, <2>3, <2>5
<1> QED BY <1>1, <1>2, <1>3

\* One actor goes on, and no row is lost.
LEMMA ActorChange ==
  ASSUME ActorsInv, RowsInv, RowsInv', npipes' >= npipes,
         NEW a \in Actor, NEW r \in ActRecord, WellFormed(a, r, npipes'),
         act' = [act EXCEPT ![a] = r]
  PROVE  ActorsInv'
<1>0. act \in [Actor -> ActRecord]
  BY DEF ActorsInv
<1>1. act' \in [Actor -> ActRecord]
  BY <1>0
<1>2. ASSUME NEW b \in Actor PROVE WellFormed(b, act'[b], npipes')
  <2>1. CASE b = a
    BY <2>1 DEF ActorsInv
  <2>2. CASE b # a
    <3>1. act'[b] = act[b] /\ WellFormed(b, act[b], npipes)
      BY <2>2 DEF ActorsInv
    <3> QED BY <3>1 DEF WellFormed, RowsInv
  <2> QED BY <2>1, <2>2
<1> QED BY <1>1, <1>2 DEF ActorsInv

\* What is known of a row.
LEMMA RowFields ==
  ASSUME RowsInv, NEW p \in 1..npipes
  PROVE  /\ p \in Pipe
         /\ pipe[p] \in PipeRecord
         /\ pipe[p].key \in Key
         /\ pipe[p].status \in {"AWAITING_CONFIRMATION", "RUNNING"} \cup Ended
         /\ pipe[p].count \in Time /\ pipe[p].noop \in BOOLEAN
         /\ pipe[p].confirmed \in Time /\ pipe[p].doneAt \in Time
         /\ pipe[p].read \in SUBSET (1..MaxPosts)
         /\ pipe[p] = [key |-> pipe[p].key, status |-> pipe[p].status,
                       count |-> pipe[p].count, noop |-> pipe[p].noop,
                       confirmed |-> pipe[p].confirmed, read |-> pipe[p].read,
                       doneAt |-> pipe[p].doneAt]
<1>1. p \in Pipe /\ p <= npipes
  BY DEF RowsInv, Pipe
<1>2. pipe[p] \in PipeRecord
  BY <1>1 DEF RowsInv
<1> QED BY <1>1, <1>2 DEF PipeRecord

\* One row is replaced.
LEMMA RowChange ==
  ASSUME RowsInv, NEW p \in 1..npipes, NEW r \in PipeRecord,
         pipe' = [pipe EXCEPT ![p] = r], npipes' = npipes
  PROVE  RowsInv'
<1>1. p \in Pipe /\ p <= npipes
  BY DEF RowsInv, Pipe
<1> QED BY <1>1 DEF RowsInv

\* A request that begins.
LEMMA RequestStep ==
  ASSUME TypeInv, NEW a \in Actor, NEW r \in ActRecord, WellFormed(a, r, npipes),
         Request(a, r)
  PROVE  TypeInv'
<1>1. RowsInv' /\ PostsInv' /\ npipes' = npipes /\ npipes \in Nat
  BY DEF Request, TypeInv, RowsInv, PostsInv, rows, posts
<1>2. ActorsInv'
  <2>1. npipes' >= npipes /\ WellFormed(a, r, npipes')
    BY <1>1
  <2>2. act' = [act EXCEPT ![a] = r]
    BY DEF Request
  <2>3. ActorsInv /\ RowsInv
    BY DEF TypeInv
  <2> QED BY <1>1, <2>1, <2>2, <2>3, ActorChange
<1>3. BoundsInv'
  BY DEF Request, TypeInv, BoundsInv
<1> QED BY <1>1, <1>2, <1>3 DEF TypeInv

\* The requests of users.
LEMMA AskStep ==
  ASSUME TypeInv, NEW a \in Caller, Ask(a)
  PROVE  TypeInv'
<1>0. a \in Actor /\ Idle \in ActRecord
  BY IdleRecord DEF Actor
<1>1. ASSUME NEW k \in Key, AskCreate(a, k) PROVE TypeInv'
  <2>1. [Idle EXCEPT !.pc = "find", !.key = k] \in ActRecord
    BY <1>0 DEF ActRecord
  <2>0. /\ [Idle EXCEPT !.pc = "find", !.key = k].pc = "find"
        /\ [Idle EXCEPT !.pc = "find", !.key = k].key = k
    BY <1>0 DEF ActRecord
  <2>2. WellFormed(a, [Idle EXCEPT !.pc = "find", !.key = k], npipes)
    BY <2>0 DEF WellFormed
  <2> QED BY <1>0, <1>1, <2>1, <2>2, RequestStep DEF AskCreate
<1>2. ASSUME NEW p \in Pipe, AskConfirm(a, p) \/ CancelRead(a, p) PROVE TypeInv'
  <2>0. p \in 1..npipes /\ p \in 0..MaxPipes
    BY <1>2 DEF AskConfirm, CancelRead, Active, Pipe, TypeInv, RowsInv
  <2>1. ASSUME NEW l \in {"confirm", "cancelling"}
        PROVE  /\ [Idle EXCEPT !.pc = l, !.pipe = p] \in ActRecord
               /\ WellFormed(a, [Idle EXCEPT !.pc = l, !.pipe = p], npipes)
    <3>1. [Idle EXCEPT !.pc = l, !.pipe = p] \in ActRecord
      BY <1>0, <2>0 DEF ActRecord
    <3>2. [Idle EXCEPT !.pc = l, !.pipe = p].pc = l /\ [Idle EXCEPT !.pc = l, !.pipe = p].pipe = p
      BY <1>0 DEF ActRecord
    <3> QED BY <2>0, <3>1, <3>2 DEF WellFormed
  <2> QED BY <1>0, <1>2, <2>1, RequestStep DEF AskConfirm, CancelRead
<1>3. ASSUME NEW p \in Pipe, StatusRead(a, p) PROVE TypeInv'
  <2>0. p \in 1..npipes /\ p \in 0..MaxPipes
    BY <1>3 DEF StatusRead, Pipe, TypeInv, RowsInv
  <2> DEFINE l == IF pipe[p].status = "AWAITING_CONFIRMATION" THEN "covered" ELSE "viewed"
             s == [Idle EXCEPT !.pipe = p, !.pc = l, !.count = CommentCount(pipe[p].key)]
  <2>1. CommentCount(pipe[p].key) \in Time
    BY CommentCountType DEF TypeInv, PostsInv
  <2>2. l \in {"covered", "viewed"}
    OBVIOUS
  <2>3. Request(a, s)
    BY <1>3 DEF StatusRead
  <2> HIDE DEF l
  <2>4. s \in ActRecord
    BY <1>0, <2>0, <2>1, <2>2 DEF ActRecord
  <2>5. s.pc = l /\ s.pipe = p
    BY <1>0 DEF ActRecord
  <2>6. WellFormed(a, s, npipes)
    BY <2>0, <2>2, <2>5 DEF WellFormed
  <2> HIDE DEF s
  <2> QED BY <1>0, <2>3, <2>4, <2>6, RequestStep
<1> QED BY <1>1, <1>2, <1>3 DEF Ask

\* A step of an actor that writes no row.
LEMMA ActorOnly ==
  ASSUME TypeInv, NEW a \in Actor, NEW r \in ActRecord, WellFormed(a, r, npipes),
         act' = [act EXCEPT ![a] = r], UNCHANGED <<posts, rows, running, bounds>>
  PROVE  TypeInv'
<1>1. RowsInv' /\ PostsInv' /\ BoundsInv' /\ npipes' = npipes /\ npipes \in Nat
  BY DEF TypeInv, RowsInv, PostsInv, BoundsInv, rows, posts, bounds
<1>2. npipes' >= npipes /\ WellFormed(a, r, npipes') /\ ActorsInv /\ RowsInv
  BY <1>1 DEF TypeInv
<1>3. ActorsInv'
  BY <1>1, <1>2, ActorChange
<1> QED BY <1>1, <1>3 DEF TypeInv

\* A step of an actor that writes one row.
LEMMA ActorAndRow ==
  ASSUME TypeInv, NEW a \in Actor, NEW r \in ActRecord, WellFormed(a, r, npipes),
         act' = [act EXCEPT ![a] = r],
         NEW p \in 1..npipes, NEW row \in PipeRecord, pipe' = [pipe EXCEPT ![p] = row],
         UNCHANGED <<posts, npipes, running, bounds>>
  PROVE  TypeInv'
<1>1. PostsInv' /\ BoundsInv' /\ npipes' = npipes /\ npipes \in Nat
  BY DEF TypeInv, RowsInv, PostsInv, BoundsInv, posts, bounds
<1>2. RowsInv'
  BY <1>1, RowChange DEF TypeInv
<1>3. npipes' >= npipes /\ WellFormed(a, r, npipes') /\ ActorsInv /\ RowsInv
  BY <1>1 DEF TypeInv
<1>4. ActorsInv'
  BY <1>2, <1>3, ActorChange
<1> QED BY <1>1, <1>2, <1>4 DEF TypeInv

\* An actor that is given a row goes on with it, or with something else.
LEMMA ReturnedRecord ==
  ASSUME ActorsInv, NEW a \in Actor, NEW n \in 0..MaxPipes, NEW p \in 1..n, NEW row,
         Returned(a, p, row)
  PROVE  \E r \in ActRecord : WellFormed(a, r, n) /\ act' = [act EXCEPT ![a] = r]
                              /\ r.pc \notin {"confirmed", "dispatch"}
<1>1. CASE a \in Caller \/ row.status # "AWAITING_CONFIRMATION"
  <2>1. act' = [act EXCEPT ![a] = Left(a)]
    BY <1>1 DEF Returned
  <2>2. Left(a).pc \in {"idle", "next"}
    BY IdleRecord DEF Left, Idle, ActRecord
  <2> QED BY <2>1, <2>2, IdleRecord
<1>2. CASE ~(a \in Caller \/ row.status # "AWAITING_CONFIRMATION")
  <2> DEFINE l == IF row.count = 0 THEN "complete" ELSE "confirm"
             r == [act[a] EXCEPT !.pc = l, !.pipe = p]
  <2>1. l \in {"complete", "confirm"}
    OBVIOUS
  <2>2. act' = [act EXCEPT ![a] = r]
    BY <1>2 DEF Returned, ActorsInv
  <2> HIDE DEF l
  <2>3. act[a] \in ActRecord
    BY ActorFields
  <2>4. p \in 0..MaxPipes
    OBVIOUS
  <2>5. r \in ActRecord
    BY <2>1, <2>3, <2>4 DEF ActRecord
  <2>6. r.pc = l /\ r.pipe = p
    BY <2>3 DEF ActRecord
  <2>7. WellFormed(a, r, n)
    BY <2>1, <2>6 DEF WellFormed
  <2> HIDE DEF r
  <2> QED BY <2>1, <2>2, <2>5, <2>6, <2>7
<1> QED BY <1>1, <1>2

\* The steps of an actor that write no row.
LEMMA QuietStep ==
  ASSUME TypeInv, NEW a \in Actor,
         \/ FindActive(a) \/ InsertFails(a) \/ InsertConflict(a) \/ Refetch(a)
         \/ ConfirmRead(a) \/ ConfirmRefused(a) \/ ConfirmConflict(a) \/ StatusShow(a)
  PROVE  TypeInv'
<1>0. /\ ActorsInv /\ RowsInv /\ npipes \in 0..MaxPipes
      /\ act[a] \in ActRecord /\ WellFormed(a, act[a], npipes)
  BY ActorFields DEF TypeInv, RowsInv
<1>1. ASSUME Release(a), UNCHANGED <<posts, rows, running, bounds>> PROVE TypeInv'
  BY <1>0, <1>1, IdleRecord, ActorOnly DEF Release
<1>2. ASSUME NEW key, NEW p \in ActiveOf(key), Returned(a, p, pipe[p]),
             UNCHANGED <<posts, rows, running, bounds>>
      PROVE  TypeInv'
  <2>1. p \in 1..npipes
    BY <1>0 DEF ActiveOf, Active, Pipe
  <2>2. PICK r \in ActRecord : WellFormed(a, r, npipes) /\ act' = [act EXCEPT ![a] = r]
    BY <1>0, <1>2, <2>1, ReturnedRecord
  <2> QED BY <1>2, <2>2, ActorOnly
<1>3. CASE FindActive(a)
  <2>1. CASE ActiveOf(act[a].key) = {}
    <3> DEFINE n == CommentCount(act[a].key)
               r == [act[a] EXCEPT !.pc = "insert", !.count = n]
    <3>1. n \in Time
      BY CommentCountType DEF TypeInv, PostsInv
    <3>2. act' = [act EXCEPT ![a] = r]
      BY <1>3, <2>1 DEF FindActive
    <3> HIDE DEF n
    <3>3. r \in ActRecord
      BY <1>0, <3>1 DEF ActRecord
    <3>4. r.pc = "insert" /\ r.key = act[a].key
      BY <1>0 DEF ActRecord
    <3>5. WellFormed(a, r, npipes)
      BY <1>0, <1>3, <3>4 DEF WellFormed, FindActive, At
    <3> HIDE DEF r
    <3> QED BY <1>3, <3>2, <3>3, <3>5, ActorOnly DEF FindActive
  <2>2. CASE ActiveOf(act[a].key) # {}
    BY <1>2, <1>3, <2>2 DEF FindActive
  <2> QED BY <2>1, <2>2
<1>4. CASE InsertConflict(a)
  <2> DEFINE r == [act[a] EXCEPT !.pc = "refetch"]
  <2>1. act' = [act EXCEPT ![a] = r]
    BY <1>4 DEF InsertConflict, Goto, TypeInv, ActorsInv
  <2>2. r \in ActRecord /\ r.pc = "refetch" /\ r.key = act[a].key
    BY <1>0 DEF ActRecord
  <2>3. WellFormed(a, r, npipes)
    BY <1>0, <1>4, <2>2 DEF WellFormed, InsertConflict, At
  <2> HIDE DEF r
  <2> QED BY <1>4, <2>1, <2>2, <2>3, ActorOnly DEF InsertConflict
<1>5. CASE Refetch(a)
  BY <1>1, <1>2, <1>5 DEF Refetch
<1>6. CASE ConfirmRead(a)
  <2> DEFINE r == [act[a] EXCEPT !.pc = "confirmed", !.count = nposted]
  <2>1. CASE pipe[act[a].pipe].status = "AWAITING_CONFIRMATION"
    <3>1. act' = [act EXCEPT ![a] = r]
      BY <1>6, <2>1 DEF ConfirmRead
    <3>2. nposted \in Time
      BY DEF TypeInv, PostsInv
    <3>3. r \in ActRecord /\ r.pc = "confirmed" /\ r.pipe = act[a].pipe
      BY <1>0, <3>2 DEF ActRecord
    <3>4. WellFormed(a, r, npipes)
      BY <1>0, <1>6, <3>3 DEF WellFormed, ConfirmRead, At
    <3> HIDE DEF r
    <3> QED BY <1>6, <3>1, <3>3, <3>4, ActorOnly DEF ConfirmRead
  <2> QED BY <1>1, <1>6, <2>1 DEF ConfirmRead
<1>7. CASE InsertFails(a) \/ ConfirmRefused(a) \/ ConfirmConflict(a) \/ StatusShow(a)
  BY <1>1, <1>7 DEF InsertFails, ConfirmRefused, ConfirmConflict, StatusShow
<1> QED BY <1>3, <1>4, <1>5, <1>6, <1>7

\* A new row is one of AWAITING_CONFIRMATION that nothing was read for.
LEMMA InsertStep ==
  ASSUME TypeInv, NEW a \in Actor, Insert(a)
  PROVE  TypeInv' /\ npipes + 1 \in Pipe
<1> DEFINE p == npipes + 1
           row == [NoPipe EXCEPT !.key = act[a].key, !.count = act[a].count,
                                 !.status = "AWAITING_CONFIRMATION"]
<1>1. /\ ActorsInv /\ RowsInv /\ npipes \in 0..MaxPipes /\ npipes < MaxPipes
      /\ npipes' = p /\ pipe' = [pipe EXCEPT ![p] = row]
  BY DEF TypeInv, RowsInv, Insert
<1>2. p \in Pipe /\ p \in 0..MaxPipes
  BY <1>1 DEF Pipe
<1>3. act[a].key \in Key /\ act[a].count \in Time
  BY <1>1, ActorFields DEF Insert, At, WellFormed
<1>4. row \in PipeRecord
  <2>1. 0 \in Time
    BY DEF Time
  <2> DEFINE keyed == [NoPipe EXCEPT !.key = act[a].key]
  <2>3. keyed \in PipeRecord
    BY <1>3, <2>1 DEF NoPipe, PipeRecord, Ended
  <2>4. row = [keyed EXCEPT !.count = act[a].count, !.status = "AWAITING_CONFIRMATION"]
    OBVIOUS
  <2> HIDE DEF keyed, row
  <2> QED BY <1>3, <2>3, <2>4 DEF PipeRecord
<1>5. RowsInv'
  BY <1>1, <1>2, <1>4 DEF RowsInv, Pipe
<1>6. PICK r \in ActRecord : WellFormed(a, r, p) /\ act' = [act EXCEPT ![a] = r]
  <2>1. Returned(a, p, pipe'[p])
    BY DEF Insert
  <2>2. p \in 1..p
    BY <1>1
  <2> HIDE DEF p
  <2> QED BY <1>1, <1>2, <2>1, <2>2, ReturnedRecord
<1>7. npipes' >= npipes /\ WellFormed(a, r, npipes')
  BY <1>1, <1>6
<1>8. ActorsInv'
  BY <1>1, <1>5, <1>6, <1>7, ActorChange
<1>9. PostsInv' /\ BoundsInv'
  BY DEF Insert, TypeInv, PostsInv, BoundsInv, posts, bounds
<1> QED BY <1>2, <1>5, <1>8, <1>9 DEF TypeInv

\* The steps of an actor that write the row it is about.
LEMMA WritingStep ==
  ASSUME TypeInv, NEW a \in Actor,
         \/ CompleteEmpty(a) \/ ConfirmFlush(a) \/ Dispatch(a) \/ StatusFlush(a)
         \/ CancelFlush(a)
  PROVE  TypeInv'
<1> DEFINE p == act[a].pipe
<1>0. /\ ActorsInv /\ RowsInv /\ npipes \in 0..MaxPipes
      /\ act[a] \in ActRecord /\ WellFormed(a, act[a], npipes) /\ act[a].count \in Time
  BY ActorFields DEF TypeInv, RowsInv
<1>1. p \in 1..npipes
  BY <1>0 DEF CompleteEmpty, ConfirmFlush, Dispatch, StatusFlush, CancelFlush, At, WellFormed
<1>2. p \in Pipe /\ pipe[p] \in PipeRecord /\ nposted \in Time
  BY <1>0, <1>1, RowFields DEF TypeInv, PostsInv
<1> HIDE DEF p
<1>3. ASSUME NEW row \in PipeRecord, pipe' = [pipe EXCEPT ![p] = row], Release(a),
             UNCHANGED <<posts, npipes, running, bounds>>
      PROVE  TypeInv'
  BY <1>0, <1>1, <1>3, IdleRecord, ActorAndRow DEF Release
<1>4. CASE CompleteEmpty(a)
  <2> DEFINE row == [pipe[p] EXCEPT !.status = "COMPLETED", !.doneAt = nposted, !.noop = TRUE]
  <2>1. row \in PipeRecord
    BY <1>2 DEF PipeRecord, Ended
  <2>2. pipe' = [pipe EXCEPT ![p] = row]
    BY <1>4 DEF CompleteEmpty, p
  <2> HIDE DEF row
  <2> QED BY <1>3, <1>4, <2>1, <2>2 DEF CompleteEmpty
<1>5. CASE ConfirmFlush(a)
  <2> DEFINE row == [pipe[p] EXCEPT !.status = "RUNNING", !.confirmed = act[a].count]
             r == [act[a] EXCEPT !.pc = "dispatch"]
  <2>1. row \in PipeRecord
    BY <1>0, <1>2 DEF PipeRecord
  <2>2. pipe' = [pipe EXCEPT ![p] = row]
    BY <1>5 DEF ConfirmFlush, p
  <2>3. act' = [act EXCEPT ![a] = r]
    BY <1>0, <1>5 DEF ConfirmFlush, Goto, ActorsInv
  <2>4. r \in ActRecord /\ r.pc = "dispatch" /\ r.pipe = p
    BY <1>0 DEF ActRecord, p
  <2>5. WellFormed(a, r, npipes)
    BY <1>1, <2>4 DEF WellFormed
  <2> HIDE DEF row, r
  <2> QED BY <1>1, <1>5, <2>1, <2>2, <2>3, <2>4, <2>5, ActorAndRow DEF ConfirmFlush
<1>6. CASE Dispatch(a)
  <2> DEFINE texts == Analysable(pipe[p].key)
             row == IF texts = {} THEN [pipe[p] EXCEPT !.status = "FAILED"]
                                  ELSE [pipe[p] EXCEPT !.read = texts]
  <2>1. texts \in SUBSET (1..MaxPosts)
    BY <1>2 DEF Analysable, Time
  <2>2. pipe' = [pipe EXCEPT ![p] = row]
    BY <1>6 DEF Dispatch, p
  <2> HIDE DEF texts
  <2>3. row \in PipeRecord
    BY <1>2, <2>1 DEF PipeRecord, Ended
  <2> HIDE DEF row
  <2> QED BY <1>3, <1>6, <2>2, <2>3 DEF Dispatch
<1>7. CASE StatusFlush(a)
  <2> DEFINE row == [pipe[p] EXCEPT !.count = act[a].count, !.noop = FALSE]
  <2>1. row \in PipeRecord
    BY <1>0, <1>2 DEF PipeRecord
  <2>2. pipe' = [pipe EXCEPT ![p] = row]
    BY <1>7 DEF StatusFlush, p
  <2> HIDE DEF row
  <2> QED BY <1>3, <1>7, <2>1, <2>2 DEF StatusFlush
<1>8. CASE CancelFlush(a)
  <2> DEFINE row == [pipe[p] EXCEPT !.status = "CANCELLED"]
  <2>1. row \in PipeRecord
    BY <1>2 DEF PipeRecord, Ended
  <2>2. pipe' = [pipe EXCEPT ![p] = row]
    BY <1>0, <1>2, <1>8 DEF CancelFlush, p, RowsInv
  <2> HIDE DEF row
  <2> QED BY <1>3, <1>8, <2>1, <2>2 DEF CancelFlush
<1> QED BY <1>4, <1>5, <1>6, <1>7, <1>8

\* The latest completion of a scope is a time.
LEMMA LastDoneType ==
  ASSUME RowsInv, NEW s
  PROVE  LastDone(s) \in Time
<1> DEFINE D == {0} \cup {pipe[p].doneAt : p \in CompletedOn(s)}
<1>1. D \in SUBSET (0..MaxPosts) /\ D # {}
  <2>1. \A p \in CompletedOn(s) : pipe[p].doneAt \in 0..MaxPosts
    BY RowFields DEF CompletedOn, Time
  <2> QED BY <2>1
<1> HIDE DEF D
<1>2. Max(D) \in D
  BY <1>1, MaxIsGreatest
<1>3. LastDone(s) = Max(D)
  BY DEF LastDone, D
<1> QED BY <1>1, <1>2, <1>3 DEF Time

\* The steps of a tier.
LEMMA TierTypes ==
  ASSUME TypeInv, NEW t \in Tier, TierFires(t) \/ TierStep(t)
  PROVE  TypeInv'
<1>0. /\ t \in Actor /\ ActorsInv /\ RowsInv /\ RowsInv' /\ PostsInv'
      /\ npipes' = npipes /\ npipes \in Nat /\ act[t] \in ActRecord
      /\ act \in [Actor -> ActRecord]
  <2>1. RowsInv' /\ PostsInv' /\ npipes' = npipes
    BY DEF TierFires, TierStep, TierEnds, Evaluate, TypeInv, RowsInv, PostsInv, rows, posts
  <2>2. t \in Actor /\ ActorsInv /\ RowsInv /\ npipes \in Nat
    BY DEF Actor, TypeInv, RowsInv
  <2> QED BY <2>1, <2>2, ActorFields DEF ActorsInv
<1>1. BoundsInv'
  BY DEF TierFires, TierStep, TierEnds, Evaluate, TypeInv, BoundsInv, bounds
<1>2. ASSUME NEW r \in ActRecord, WellFormed(t, r, npipes), act' = [act EXCEPT ![t] = r]
      PROVE  TypeInv'
  <2>1. npipes' >= npipes /\ WellFormed(t, r, npipes')
    BY <1>0, <1>2
  <2>2. ActorsInv'
    BY <1>0, <1>2, <2>1, ActorChange
  <2> QED BY <1>0, <1>1, <2>2 DEF TypeInv
<1>3. CASE TierFires(t)
  <2> DEFINE r == [Idle EXCEPT !.pc = "next", !.todo = Listed(t)]
  <2>1. Listed(t) \in SUBSET (Scope \X Time)
    <3>1. \A s \in ScopesOf(t) : s \in Scope
      BY DEF ScopesOf, Scope
    <3>2. \A s : LastDone(s) \in Time
      BY <1>0, LastDoneType
    <3> QED BY <3>1, <3>2 DEF Listed
  <2>2. r \in ActRecord /\ r.pc = "next"
    BY <2>1, IdleRecord DEF ActRecord
  <2>3. WellFormed(t, r, npipes)
    BY <2>2 DEF WellFormed
  <2>4. act' = [act EXCEPT ![t] = r]
    BY <1>3 DEF TierFires
  <2> HIDE DEF r
  <2> QED BY <1>2, <2>2, <2>3, <2>4
<1>4. CASE TierEnds(t)
  BY <1>2, <1>4, IdleRecord DEF TierEnds
<1>5. CASE Evaluate(t)
  <2>1. PICK e \in act[t].todo :
          LET left == [act[t] EXCEPT !.todo = @ \ {e}] IN
          act' = [act EXCEPT ![t] =
            IF Changed(e[1], e[2])
              THEN [left EXCEPT !.pc = "find", !.key = <<e[1], AllVersions>>]
              ELSE left]
    BY <1>5 DEF Evaluate
  <2> DEFINE left == [act[t] EXCEPT !.todo = act[t].todo \ {e}]
             found == [left EXCEPT !.pc = "find", !.key = <<e[1], AllVersions>>]
  <2>2. left \in ActRecord /\ left.pc = "next"
    BY <1>0, <1>5 DEF ActRecord, Evaluate, At
  <2>3. <<e[1], AllVersions>> \in Key
    <3>1. act[t].todo \in SUBSET (Scope \X Time)
      BY <1>0, ActorFields
    <3>2. e[1] \in Scope
      BY <3>1
    <3> QED BY <3>2 DEF Key
  <2>4. act' = [act EXCEPT ![t] = IF Changed(e[1], e[2]) THEN found ELSE left]
    BY <1>0, <2>1 DEF ActRecord
  <2> HIDE DEF left
  <2>5. found \in ActRecord /\ found.pc = "find" /\ found.key = <<e[1], AllVersions>>
    BY <2>2, <2>3 DEF ActRecord
  <2>6. WellFormed(t, left, npipes) /\ WellFormed(t, found, npipes)
    BY <2>2, <2>3, <2>5 DEF WellFormed
  <2> HIDE DEF found
  <2>7. CASE Changed(e[1], e[2])
    BY <1>2, <2>4, <2>5, <2>6, <2>7
  <2>8. CASE ~Changed(e[1], e[2])
    BY <1>2, <2>2, <2>4, <2>6, <2>8
  <2> QED BY <2>7, <2>8
<1> QED BY <1>3, <1>4, <1>5 DEF TierStep

\* What happens around the actors.
LEMMA SurroundingTypes ==
  ASSUME TypeInv,
         \/ \E c \in Comment, S \in Footprint, v \in Version : Post(c, S, v)
         \/ \E p \in Pipe : Complete(p) \/ Fail(p)
         \/ Crash
  PROVE  TypeInv'
<1>1. ASSUME NEW c \in Comment, NEW S \in Footprint, NEW v \in Version, Post(c, S, v)
      PROVE  TypeInv'
  <2> DEFINE s == [comment |-> c, scopes |-> S, version |-> v]
  <2>1. s \in SubmissionRecord
    BY DEF SubmissionRecord
  <2>2. subs' = [subs EXCEPT ![nposted + 1] = s] /\ nposted' = nposted + 1 /\ nposted < MaxPosts
    BY <1>1 DEF Post
  <2> HIDE DEF s
  <2>3. PostsInv'
    BY <2>1, <2>2 DEF TypeInv, PostsInv, Time
  <2>4. ActorsInv' /\ RowsInv' /\ BoundsInv'
    BY <1>1 DEF Post, TypeInv, ActorsInv, RowsInv, BoundsInv, rows, bounds
  <2> QED BY <2>3, <2>4 DEF TypeInv
<1>2. ASSUME NEW p \in Pipe, Complete(p) \/ Fail(p) PROVE TypeInv'
  <2>0. p \in 1..npipes /\ npipes' = npipes /\ RowsInv
    <3>1. p <= npipes /\ npipes' = npipes
      BY <1>2 DEF Complete, Fail, Active
    <3>2. RowsInv /\ npipes \in 0..MaxPipes
      BY DEF TypeInv, RowsInv
    <3> QED BY <3>1, <3>2 DEF Pipe
  <2>1. pipe[p] \in PipeRecord /\ nposted \in Time
    BY <2>0, RowFields DEF TypeInv, PostsInv
  <2> DEFINE done == [pipe[p] EXCEPT !.status = "COMPLETED", !.doneAt = nposted]
             failed == [pipe[p] EXCEPT !.status = "FAILED"]
  <2>2. done \in PipeRecord /\ failed \in PipeRecord
    BY <2>1 DEF PipeRecord, Ended
  <2>3. pipe' = [pipe EXCEPT ![p] = done] \/ pipe' = [pipe EXCEPT ![p] = failed]
    BY <1>2, <2>0 DEF Complete, Fail, RowsInv
  <2> HIDE DEF done, failed
  <2>4. RowsInv'
    BY <2>0, <2>2, <2>3, RowChange
  <2>5. ActorsInv' /\ PostsInv'
    BY <1>2, <2>0 DEF Complete, Fail, TypeInv, ActorsInv, PostsInv, posts
  <2>6. BoundsInv'
    <3>1. /\ running' = running /\ requests' = requests
          /\ faults' = faults \/ (faults < MaxFaults /\ faults' = faults + 1)
      BY <1>2 DEF Complete, Fail, bounds
    <3> QED BY <3>1 DEF TypeInv, BoundsInv
  <2> QED BY <2>4, <2>5, <2>6 DEF TypeInv
<1>3. ASSUME Crash PROVE TypeInv'
  <2>1. RowsInv' /\ PostsInv' /\ BoundsInv'
    BY <1>3 DEF Crash, TypeInv, RowsInv, PostsInv, BoundsInv, rows, posts
  <2>2. ActorsInv'
    BY <1>3, IdleRecord DEF Crash, ActorsInv
  <2> QED BY <2>1, <2>2 DEF TypeInv
<1> QED BY <1>1, <1>2, <1>3

\* The first state.
LEMMA TypeStart == Init => TypeInv
<1> SUFFICES ASSUME Init PROVE TypeInv
  OBVIOUS
<1>1. ActorsInv
  BY IdleRecord DEF Init, ActorsInv
<1>2. RowsInv /\ PostsInv /\ BoundsInv
  BY DEF Init, RowsInv, PostsInv, BoundsInv, Pipe, Time
<1> QED BY <1>1, <1>2 DEF TypeInv

\* Every step keeps the types.
LEMMA TypeStep == TypeInv /\ [Next]_vars => TypeInv'
<1> SUFFICES ASSUME TypeInv, [Next]_vars PROVE TypeInv'
  OBVIOUS
<1>1. CASE UNCHANGED vars
  BY <1>1 DEF vars, TypeInv, ActorsInv, RowsInv, PostsInv, BoundsInv
<1>2. CASE \E a \in Caller : Ask(a)
  BY <1>2, AskStep
<1>3. ASSUME NEW a \in Actor, ActorStep(a) PROVE TypeInv'
  BY <1>3, QuietStep, InsertStep, WritingStep DEF ActorStep
<1>4. CASE \E t \in Tier : TierFires(t) \/ TierStep(t)
  BY <1>4, TierTypes
<1> QED BY <1>1, <1>2, <1>3, <1>4, SurroundingTypes DEF Next

\* Whatever the requests, the tiers and the restarts do, rows, submissions and
\* requests keep their types: no step of CreatePipeline, ConfirmPipeline,
\* GetPipelineStatus or the scheduler is ever about a row that does not exist.
THEOREM ScopesTypeCorrect == Spec => []ScopesTypeOK
<1>1. Init => TypeInv
  BY TypeStart
<1>2. TypeInv /\ [Next]_vars => TypeInv'
  BY TypeStep
<1> QED BY <1>1, <1>2, TypeInvTyped, PTL DEF Spec

-----------------------------------------------------------------------------
(* The partial unique index.                                               *)

\* A row is written under its key; it may become active only where the index
\* knows no other.
LEMMA IndexRowChange ==
  ASSUME RowsInv, OneActivePerKey, NEW p \in 1..npipes, NEW row,
         pipe' = [pipe EXCEPT ![p] = row], npipes' = npipes,
         row.key = pipe[p].key,
         \/ row.status \in Ended \/ row.status = pipe[p].status
         \/ ActiveOf(pipe[p].key) \subseteq {p}
  PROVE  OneActivePerKey'
<1>1. p \in Pipe /\ p <= npipes /\ pipe'[p] = row
  <2>1. p \in Pipe
    BY RowFields
  <2> QED BY <2>1 DEF RowsInv
<1>2. \A q \in Pipe : q # p => pipe'[q] = pipe[q]
  BY DEF RowsInv
<1>3. SUFFICES ASSUME NEW q \in Pipe, NEW o \in Pipe, Active(q)', Active(o)',
                      pipe'[q].key = pipe'[o].key
               PROVE  q = o
  BY DEF OneActivePerKey
<1>4. ASSUME NEW x \in Pipe, Active(p)', Active(x)', pipe'[x].key = pipe'[p].key, x # p
      PROVE  FALSE
  <2>1. Active(x) /\ pipe[x].key = pipe[p].key /\ row.status \notin Ended
    BY <1>1, <1>2, <1>4 DEF Active
  <2>2. x \in ActiveOf(pipe[p].key)
    BY <2>1 DEF ActiveOf
  <2>3. row.status = pipe[p].status
    BY <1>4, <2>1, <2>2
  <2>4. Active(p)
    BY <1>1, <2>1, <2>3 DEF Active
  <2> QED BY <1>1, <1>4, <2>1, <2>4 DEF OneActivePerKey
<1>5. CASE q # p /\ o # p
  <2>1. Active(q) /\ Active(o) /\ pipe[q].key = pipe[o].key
    BY <1>2, <1>3, <1>5 DEF Active
  <2> QED BY <2>1 DEF OneActivePerKey
<1> QED BY <1>3, <1>4, <1>5

\* Every step keeps to the index.
LEMMA IndexStep ==
  ASSUME TypeInv, OneActivePerKey, [Next]_vars
  PROVE  OneActivePerKey'
<1>0. /\ ActorsInv /\ RowsInv /\ pipe \in [Pipe -> PipeRecord \cup {NoPipe}]
      /\ npipes \in 0..MaxPipes
  BY DEF TypeInv, RowsInv
<1>1. ASSUME UNCHANGED rows PROVE OneActivePerKey'
  BY <1>1 DEF rows, OneActivePerKey, Active
<1>2. CASE UNCHANGED vars
  BY <1>1, <1>2 DEF vars, rows
<1>3. CASE \/ \E c \in Comment, S \in Footprint, v \in Version : Post(c, S, v)
           \/ Crash
           \/ \E a \in Caller : Ask(a)
           \/ \E t \in Tier : TierFires(t) \/ TierStep(t)
  BY <1>1, <1>3 DEF Post, Crash, Ask, AskCreate, AskConfirm, StatusRead, CancelRead,
    Request, TierFires, TierStep, TierEnds, Evaluate
<1>4. ASSUME NEW p \in Pipe, Complete(p) \/ Fail(p) PROVE OneActivePerKey'
  <2>1. p \in 1..npipes /\ npipes' = npipes
    BY <1>0, <1>4 DEF Complete, Fail, Active, Pipe
  <2> DEFINE done == [pipe[p] EXCEPT !.status = "COMPLETED", !.doneAt = nposted]
             failed == [pipe[p] EXCEPT !.status = "FAILED"]
  <2>2. pipe[p] \in PipeRecord
    BY <1>0, <2>1, RowFields
  <2>3. /\ done.key = pipe[p].key /\ done.status \in Ended
        /\ failed.key = pipe[p].key /\ failed.status \in Ended
    BY <2>2 DEF PipeRecord, Ended
  <2>4. pipe' = [pipe EXCEPT ![p] = done] \/ pipe' = [pipe EXCEPT ![p] = failed]
    BY <1>0, <1>4 DEF Complete, Fail
  <2> HIDE DEF done, failed
  <2> QED BY <1>0, <2>1, <2>3, <2>4, IndexRowChange
<1>5. ASSUME NEW a \in Actor, ActorStep(a) PROVE OneActivePerKey'
  <2>1. CASE \/ FindActive(a) \/ InsertFails(a) \/ InsertConflict(a) \/ Refetch(a)
             \/ ConfirmRead(a) \/ ConfirmRefused(a) \/ ConfirmConflict(a) \/ StatusShow(a)
    BY <1>1, <2>1 DEF FindActive, InsertFails, InsertConflict, Refetch, ConfirmRead,
      ConfirmRefused, ConfirmConflict, StatusShow
  <2>2. CASE Insert(a)
    <3> DEFINE n == npipes + 1
               row == [NoPipe EXCEPT !.key = act[a].key, !.count = act[a].count,
                                     !.status = "AWAITING_CONFIRMATION"]
    <3>1. n \in Pipe /\ npipes' = n /\ pipe' = [pipe EXCEPT ![n] = row]
          /\ ActiveOf(act[a].key) = {}
      BY <2>2, InsertStep DEF Insert, IndexFree
    <3>2. row.key = act[a].key
      BY DEF NoPipe
    <3> HIDE DEF row
    <3>3. pipe'[n] = row /\ \A q \in Pipe : q # n => pipe'[q] = pipe[q]
      BY <1>0, <3>1
    <3>4. \A q \in Pipe : Active(q)' /\ q # n => Active(q)
      BY <1>0, <3>1, <3>3 DEF Active, Pipe
    <3>5. \A q \in Pipe : Active(q)' /\ q # n => pipe'[q].key # pipe'[n].key
      BY <3>1, <3>2, <3>3, <3>4 DEF ActiveOf
    <3> QED BY <3>3, <3>4, <3>5 DEF OneActivePerKey
  <2>3. CASE \/ CompleteEmpty(a) \/ ConfirmFlush(a) \/ Dispatch(a) \/ StatusFlush(a)
             \/ CancelFlush(a)
    <3> DEFINE p == act[a].pipe
               texts == Analysable(pipe[p].key)
               done == [pipe[p] EXCEPT !.status = "COMPLETED", !.doneAt = nposted, !.noop = TRUE]
               run == [pipe[p] EXCEPT !.status = "RUNNING", !.confirmed = act[a].count]
               read == IF texts = {} THEN [pipe[p] EXCEPT !.status = "FAILED"]
                                     ELSE [pipe[p] EXCEPT !.read = texts]
               seen == [pipe[p] EXCEPT !.count = act[a].count, !.noop = FALSE]
               gone == [pipe[p] EXCEPT !.status = "CANCELLED"]
    <3>1. p \in 1..npipes /\ npipes' = npipes
      BY <1>0, <2>3, ActorFields DEF CompleteEmpty, ConfirmFlush, Dispatch, StatusFlush,
        CancelFlush, At, WellFormed
    <3>2. pipe[p] \in PipeRecord
      BY <1>0, <3>1, RowFields
    <3> HIDE DEF p
    <3>3. /\ done.key = pipe[p].key /\ done.status \in Ended
          /\ gone.key = pipe[p].key /\ gone.status \in Ended
      BY <3>2 DEF PipeRecord, Ended
    <3>4. run.key = pipe[p].key
      BY <3>2 DEF PipeRecord
    <3>5. seen.key = pipe[p].key /\ seen.status = pipe[p].status
      BY <3>2 DEF PipeRecord
    <3>6. read.key = pipe[p].key /\ (read.status \in Ended \/ read.status = pipe[p].status)
      BY <3>2 DEF PipeRecord, Ended
    <3>7. \/ pipe' = [pipe EXCEPT ![p] = done]
          \/ pipe' = [pipe EXCEPT ![p] = run] /\ ActiveOf(pipe[p].key) \subseteq {p}
          \/ pipe' = [pipe EXCEPT ![p] = read]
          \/ pipe' = [pipe EXCEPT ![p] = seen]
          \/ pipe' = [pipe EXCEPT ![p] = gone]
      BY <1>0, <2>3 DEF CompleteEmpty, ConfirmFlush, Dispatch, StatusFlush, CancelFlush, p
    <3> HIDE DEF done, run, read, seen, gone, texts
    <3> QED BY <1>0, <3>1, <3>3, <3>4, <3>5, <3>6, <3>7, IndexRowChange
  <2> QED BY <1>5, <2>1, <2>2, <2>3 DEF ActorStep
<1> QED BY <1>2, <1>3, <1>4, <1>5 DEF Next

\* Two requests, or a request and the scheduler, never leave two active
\* pipelines of one semester, scope and version; a late confirmation that would
\* revive an ended row beside its successor is refused.
THEOREM OneActiveCorrect == Spec => []OneActivePerKey
<1>1. Init => TypeInv /\ OneActivePerKey
  BY TypeStart DEF Init, OneActivePerKey, Active, NoPipe, Ended
<1>2. TypeInv /\ OneActivePerKey /\ [Next]_vars => TypeInv' /\ OneActivePerKey'
  BY TypeStep, IndexStep
<1> QED BY <1>1, <1>2, PTL DEF Spec

-----------------------------------------------------------------------------
(* What a dispatch reads.                                                  *)

\* What there was to analyse under a key when n submissions existed.
KnownBy(key, n) == {i \in Analysable(key) : i <= n}

\* A row was confirmed in the past, is read only after its confirmation, and
\* then whole.
ReadRow(row) ==
  /\ row.confirmed <= nposted
  /\ row.status = "AWAITING_CONFIRMATION" => row.read = {}
  /\ row.read # {} => KnownBy(row.key, row.confirmed) \subseteq row.read

\* A confirmation under way will not claim more than an earlier dispatch of the
\* same row has read; a dispatch is of a confirmed row.
ReadActor(r) ==
  /\ r.pc = "confirmed" => r.count <= nposted
  /\ r.pc = "confirmed" /\ pipe[r.pipe].read # {} =>
       KnownBy(pipe[r.pipe].key, r.count) \subseteq pipe[r.pipe].read
  /\ r.pc = "dispatch" => pipe[r.pipe].status # "AWAITING_CONFIRMATION"

ReadInv ==
  /\ \A p \in 1..npipes : ReadRow(pipe[p])
  /\ \A a \in Actor : ReadActor(act[a])

\* The strengthened invariant implies the one the runs check.
LEMMA ReadImplies == RowsInv /\ ReadInv => NothingLeftOut
<1> SUFFICES ASSUME RowsInv, ReadInv, NEW p \in Pipe, pipe[p].read # {}
             PROVE  KnownBy(pipe[p].key, pipe[p].confirmed) \subseteq pipe[p].read
  BY DEF NothingLeftOut, KnownBy
<1>1. p <= npipes
  BY DEF RowsInv, NoPipe
<1>2. p \in 1..npipes
  BY <1>1 DEF Pipe, RowsInv
<1> QED BY <1>2 DEF ReadInv, ReadRow

\* Without a new submission a key has what it had.
LEMMA SameKnown ==
  ASSUME UNCHANGED posts, NEW key, NEW n
  PROVE  Analysable(key)' = Analysable(key) /\ KnownBy(key, n)' = KnownBy(key, n)
BY DEF posts, Analysable, InScope, KnownBy

\* An actor that goes on, where no row is written.
LEMMA ReadQuiet ==
  ASSUME TypeInv, TypeInv', ReadInv, UNCHANGED posts, UNCHANGED rows,
         \A b \in Actor : act'[b] = act[b] \/ act'[b].pc \notin {"confirmed", "dispatch"}
  PROVE  ReadInv'
<1>1. /\ pipe' = pipe /\ npipes' = npipes /\ nposted' = nposted
      /\ \A key, n : KnownBy(key, n)' = KnownBy(key, n)
  BY SameKnown DEF rows, posts
<1>2. ASSUME NEW p \in 1..npipes' PROVE ReadRow(pipe[p])'
  <2>1. ReadRow(pipe[p])
    BY <1>1 DEF ReadInv
  <2> QED BY <1>1, <2>1 DEF ReadRow
<1>3. ASSUME NEW b \in Actor PROVE ReadActor(act[b])'
  <2>1. ReadActor(act[b])
    BY DEF ReadInv
  <2>2. CASE act'[b] = act[b]
    BY <1>1, <2>1, <2>2 DEF ReadActor
  <2>3. CASE act'[b].pc \notin {"confirmed", "dispatch"}
    BY <2>3 DEF ReadActor
  <2> QED BY <2>2, <2>3
<1> QED BY <1>2, <1>3 DEF ReadInv

\* A row is written: what was read of it stays, or becomes all there is, and a
\* row that waits for its confirmation has waited all the time.
LEMMA ReadRowChange ==
  ASSUME TypeInv, TypeInv', ReadInv, UNCHANGED posts,
         NEW p \in 1..npipes, NEW row, pipe' = [pipe EXCEPT ![p] = row], npipes' = npipes,
         row.key = pipe[p].key, ReadRow(row),
         pipe[p].status # "AWAITING_CONFIRMATION" => row.status # "AWAITING_CONFIRMATION",
         row.read = pipe[p].read \/ row.read = Analysable(row.key),
         \A b \in Actor : \/ act'[b] = act[b]
                          \/ act'[b].pc \notin {"confirmed", "dispatch"}
                          \/ /\ act'[b].pc = "dispatch" /\ act'[b].pipe = p
                             /\ row.status # "AWAITING_CONFIRMATION"
  PROVE  ReadInv'
<1>1. /\ npipes' = npipes /\ nposted' = nposted
      /\ \A key, n : KnownBy(key, n)' = KnownBy(key, n)
  BY SameKnown DEF posts
<1>2. pipe'[p] = row /\ \A q \in 1..npipes : q # p => pipe'[q] = pipe[q]
  BY RowFields DEF TypeInv, RowsInv, Pipe
<1>3. ASSUME NEW q \in 1..npipes' PROVE ReadRow(pipe[q])'
  <2>1. ReadRow(pipe[q]) /\ q \in 1..npipes
    BY <1>1 DEF ReadInv
  <2>2. CASE q = p
    BY <1>1, <1>2, <2>2 DEF ReadRow
  <2>3. CASE q # p
    BY <1>1, <1>2, <2>1, <2>3 DEF ReadRow
  <2> QED BY <2>2, <2>3
<1>4. ASSUME NEW b \in Actor PROVE ReadActor(act[b])'
  <2>1. ReadActor(act[b]) /\ WellFormed(b, act[b], npipes)
    BY ActorFields DEF ReadInv, TypeInv
  <2>2. CASE act'[b] = act[b] /\ act[b].pc \in {"confirmed", "dispatch"}
    <3> DEFINE q == act[b].pipe
    <3>1. q \in 1..npipes
      BY <2>1, <2>2 DEF WellFormed
    <3>2. CASE q # p
      BY <1>1, <1>2, <2>1, <2>2, <3>1, <3>2 DEF ReadActor
    <3>3. CASE q = p
      <4>1. act[b].pc = "dispatch" => row.status # "AWAITING_CONFIRMATION"
        BY <2>1, <3>3 DEF ReadActor
      <4>2. act[b].pc = "confirmed" /\ row.read # {} =>
              KnownBy(row.key, act[b].count) \subseteq row.read
        BY <2>1, <3>3 DEF ReadActor, KnownBy
      <4> QED BY <1>1, <1>2, <2>1, <2>2, <3>3, <4>1, <4>2 DEF ReadActor
    <3> QED BY <3>2, <3>3
  <2>3. CASE act'[b].pc \notin {"confirmed", "dispatch"}
    BY <2>3 DEF ReadActor
  <2>4. CASE /\ act'[b].pc = "dispatch" /\ act'[b].pipe = p
             /\ row.status # "AWAITING_CONFIRMATION"
    BY <1>2, <2>4 DEF ReadActor
  <2> QED BY <2>2, <2>3, <2>4
<1> QED BY <1>3, <1>4 DEF ReadInv

\* A new submission is later than every confirmation.
LEMMA ReadPost ==
  ASSUME TypeInv, TypeInv', ReadInv, NEW c, NEW S, NEW v, Post(c, S, v)
  PROVE  ReadInv'
<1>1. /\ nposted \in Nat /\ nposted' = nposted + 1 /\ pipe' = pipe /\ npipes' = npipes
      /\ act' = act /\ \A i \in 1..nposted : subs'[i] = subs[i]
  BY DEF TypeInv, PostsInv, Time, Post, rows
<1>2. ASSUME NEW key, NEW n \in Time, n <= nposted PROVE KnownBy(key, n)' = KnownBy(key, n)
  <2>1. ASSUME NEW i PROVE i \in KnownBy(key, n)' <=> i \in KnownBy(key, n)
    <3>1. i \in KnownBy(key, n)' <=>
            i \in 1..(nposted + 1) /\ InScope(i, key)' /\ subs'[i].comment = "text" /\ i <= n
      BY <1>1 DEF KnownBy, Analysable
    <3>2. i \in KnownBy(key, n) <=>
            i \in 1..nposted /\ InScope(i, key) /\ subs[i].comment = "text" /\ i <= n
      BY DEF KnownBy, Analysable
    <3>3. i \in 1..(nposted + 1) /\ i <= n => i \in 1..nposted
      BY <1>1, <1>2 DEF Time
    <3>4. i \in 1..nposted => i \in 1..(nposted + 1) /\ subs'[i] = subs[i]
      BY <1>1
    <3>5. i \in 1..nposted => (InScope(i, key)' <=> InScope(i, key))
      BY <1>1, <3>4 DEF InScope
    <3> QED BY <3>1, <3>2, <3>3, <3>4, <3>5
  <2> QED BY <2>1
<1>3. ASSUME NEW p \in 1..npipes' PROVE ReadRow(pipe[p])'
  <2>1. ReadRow(pipe[p]) /\ pipe[p].confirmed \in Time
    BY <1>1, RowFields DEF ReadInv, TypeInv
  <2>2. pipe[p].confirmed <= nposted
    BY <2>1 DEF ReadRow
  <2>3. KnownBy(pipe[p].key, pipe[p].confirmed)' = KnownBy(pipe[p].key, pipe[p].confirmed)
    BY <1>1, <1>2, <2>1, <2>2
  <2>4. pipe[p].confirmed <= nposted'
    BY <1>1, <2>1, <2>2 DEF Time
  <2> QED BY <1>1, <2>1, <2>3, <2>4 DEF ReadRow
<1>4. ASSUME NEW b \in Actor PROVE ReadActor(act[b])'
  <2>1. ReadActor(act[b]) /\ act[b].count \in Time
    BY ActorFields DEF ReadInv, TypeInv
  <2>2. CASE act[b].pc # "confirmed"
    BY <1>1, <2>1, <2>2 DEF ReadActor
  <2>3. CASE act[b].pc = "confirmed"
    <3>1. act[b].count <= nposted
      BY <2>1, <2>3 DEF ReadActor
    <3>2. KnownBy(pipe[act[b].pipe].key, act[b].count)'
            = KnownBy(pipe[act[b].pipe].key, act[b].count)
      BY <1>1, <1>2, <2>1, <3>1
    <3>3. act[b].count <= nposted'
      BY <1>1, <2>1, <3>1 DEF Time
    <3> QED BY <1>1, <2>1, <2>3, <3>2, <3>3 DEF ReadActor
  <2> QED BY <2>2, <2>3
<1> QED BY <1>3, <1>4 DEF ReadInv

\* An actor that leaves is not about a row any more.
LEMMA LeftPc ==
  ASSUME ActorsInv, NEW a \in Actor, NEW b \in Actor, Release(a)
  PROVE  act'[b] = act[b] \/ act'[b].pc \notin {"confirmed", "dispatch"}
<1>1. Left(a).pc \in {"idle", "next"}
  BY IdleRecord DEF Left, Idle, ActRecord
<1>2. act' = [act EXCEPT ![a] = Left(a)]
  BY DEF Release
<1> QED BY <1>1, <1>2 DEF ActorsInv

\* The requests of users begin before any row is written.
LEMMA ReadAsk ==
  ASSUME TypeInv, TypeInv', ReadInv, NEW a \in Caller, Ask(a)
  PROVE  ReadInv'
<1>0. act \in [Actor -> ActRecord] /\ a \in Actor /\ Idle \in ActRecord
  BY IdleRecord DEF TypeInv, ActorsInv, Actor
<1>1. ASSUME NEW r, Request(a, r), r.pc \notin {"confirmed", "dispatch"} PROVE ReadInv'
  <2>1. \A b \in Actor : act'[b] = act[b] \/ act'[b].pc \notin {"confirmed", "dispatch"}
    BY <1>0, <1>1 DEF Request
  <2>2. UNCHANGED posts /\ UNCHANGED rows
    BY <1>1 DEF Request
  <2> QED BY <2>1, <2>2, ReadQuiet
<1>2. ASSUME NEW k \in Key, AskCreate(a, k) PROVE ReadInv'
  <2>1. [Idle EXCEPT !.pc = "find", !.key = k].pc = "find"
    BY <1>0 DEF ActRecord
  <2> QED BY <1>1, <1>2, <2>1 DEF AskCreate
<1>3. ASSUME NEW p \in Pipe, AskConfirm(a, p) \/ CancelRead(a, p) PROVE ReadInv'
  <2>1. \A l : [Idle EXCEPT !.pc = l, !.pipe = p].pc = l
    BY <1>0 DEF ActRecord
  <2> QED BY <1>1, <1>3, <2>1 DEF AskConfirm, CancelRead
<1>4. ASSUME NEW p \in Pipe, StatusRead(a, p) PROVE ReadInv'
  <2> DEFINE l == IF pipe[p].status = "AWAITING_CONFIRMATION" THEN "covered" ELSE "viewed"
             n == CommentCount(pipe[p].key)
             r == [Idle EXCEPT !.pipe = p, !.pc = l, !.count = n]
  <2>1. Request(a, r)
    BY <1>4 DEF StatusRead
  <2>2. l \notin {"confirmed", "dispatch"}
    OBVIOUS
  <2> HIDE DEF l, n
  <2>3. r.pc = l
    BY <1>0 DEF ActRecord
  <2> HIDE DEF r
  <2> QED BY <1>1, <2>1, <2>2, <2>3
<1> QED BY <1>2, <1>3, <1>4 DEF Ask

\* A confirmation that reads its row finds it unread.
LEMMA ReadConfirm ==
  ASSUME TypeInv, TypeInv', ReadInv, NEW a \in Actor, ConfirmRead(a)
  PROVE  ReadInv'
<1>0. /\ act \in [Actor -> ActRecord] /\ ActorsInv /\ nposted \in Nat
      /\ UNCHANGED posts /\ UNCHANGED rows /\ pipe' = pipe /\ npipes' = npipes
      /\ nposted' = nposted
  BY DEF TypeInv, ActorsInv, PostsInv, Time, ConfirmRead, posts, rows
<1>1. CASE Release(a)
  BY <1>0, <1>1, LeftPc, ReadQuiet
<1>2. CASE pipe[act[a].pipe].status = "AWAITING_CONFIRMATION"
  <2> DEFINE r == [act[a] EXCEPT !.pc = "confirmed", !.count = nposted]
  <2>1. act' = [act EXCEPT ![a] = r]
    BY <1>2 DEF ConfirmRead
  <2>2. r.pc = "confirmed" /\ r.count = nposted /\ r.pipe = act[a].pipe
    BY <1>0 DEF ActRecord
  <2>3. act[a].pipe \in 1..npipes
    BY <1>0, ActorFields DEF ConfirmRead, At, WellFormed
  <2>4. pipe[r.pipe].read = {}
    BY <1>2, <2>2, <2>3 DEF ReadInv, ReadRow
  <2> HIDE DEF r
  <2>5. ReadActor(act[a])'
    BY <1>0, <2>1, <2>2, <2>4 DEF ReadActor
  <2>6. \A key, n : KnownBy(key, n)' = KnownBy(key, n)
    BY <1>0, SameKnown
  <2>7. ASSUME NEW b \in Actor, b # a PROVE ReadActor(act[b])'
    <3>1. act'[b] = act[b] /\ ReadActor(act[b])
      BY <1>0, <2>1, <2>7 DEF ReadInv
    <3> QED BY <1>0, <2>6, <3>1 DEF ReadActor
  <2>8. ASSUME NEW p \in 1..npipes' PROVE ReadRow(pipe[p])'
    <3>1. ReadRow(pipe[p])
      BY <1>0 DEF ReadInv
    <3> QED BY <1>0, <2>6, <3>1 DEF ReadRow
  <2> QED BY <2>5, <2>7, <2>8 DEF ReadInv
<1> QED BY <1>1, <1>2 DEF ConfirmRead

\* A new row was not read, and nobody is about it yet.
LEMMA ReadInsert ==
  ASSUME TypeInv, TypeInv', ReadInv, NEW a \in Actor, Insert(a)
  PROVE  ReadInv'
<1> DEFINE n == npipes + 1
           row == [NoPipe EXCEPT !.key = act[a].key, !.count = act[a].count,
                                 !.status = "AWAITING_CONFIRMATION"]
<1>1. /\ ActorsInv /\ RowsInv /\ npipes \in 0..MaxPipes /\ npipes < MaxPipes
      /\ act \in [Actor -> ActRecord] /\ pipe \in [Pipe -> PipeRecord \cup {NoPipe}]
      /\ nposted \in Nat
  BY DEF TypeInv, RowsInv, ActorsInv, PostsInv, Time, Insert
<1>2. /\ n \in Pipe /\ npipes' = n /\ pipe' = [pipe EXCEPT ![n] = row]
      /\ UNCHANGED posts /\ nposted' = nposted
  BY InsertStep DEF Insert, posts
<1>3. row.confirmed = 0 /\ row.read = {}
  BY DEF NoPipe
<1> HIDE DEF row
<1>4. \A key, i : KnownBy(key, i)' = KnownBy(key, i)
  BY <1>2, SameKnown
<1>5. pipe'[n] = row /\ \A q \in 1..npipes : pipe'[q] = pipe[q]
  BY <1>1, <1>2 DEF Pipe
<1>6. ASSUME NEW p \in 1..npipes' PROVE ReadRow(pipe[p])'
  <2>1. CASE p = n
    BY <1>1, <1>2, <1>3, <1>5, <2>1 DEF ReadRow
  <2>2. CASE p # n
    <3>1. p \in 1..npipes
      BY <1>1, <1>2, <2>2
    <3>2. ReadRow(pipe[p]) /\ pipe'[p] = pipe[p]
      BY <1>5, <3>1 DEF ReadInv
    <3> QED BY <1>2, <1>4, <3>2 DEF ReadRow
  <2> QED BY <2>1, <2>2
<1>7. PICK r \in ActRecord : act' = [act EXCEPT ![a] = r] /\ r.pc \notin {"confirmed", "dispatch"}
  <2>1. Returned(a, n, pipe'[n]) /\ n \in 0..MaxPipes /\ n \in 1..n
    BY <1>1, <1>2 DEF Insert
  <2> HIDE DEF n
  <2> QED BY <1>1, <2>1, ReturnedRecord
<1>8. ASSUME NEW b \in Actor PROVE ReadActor(act[b])'
  <2>1. CASE b = a
    BY <1>1, <1>7, <2>1 DEF ReadActor
  <2>2. CASE b # a
    <3>1. act'[b] = act[b] /\ ReadActor(act[b]) /\ WellFormed(b, act[b], npipes)
      BY <1>1, <1>7, <2>2, ActorFields DEF ReadInv
    <3>2. act[b].pc \in {"confirmed", "dispatch"} => pipe'[act[b].pipe] = pipe[act[b].pipe]
      BY <1>5, <3>1 DEF WellFormed
    <3> QED BY <1>2, <1>4, <3>1, <3>2 DEF ReadActor
  <2> QED BY <2>1, <2>2
<1> QED BY <1>6, <1>8 DEF ReadInv

\* A step of an actor that writes its row.
LEMMA ReadWrite ==
  ASSUME TypeInv, TypeInv', ReadInv, NEW a \in Actor,
         \/ CompleteEmpty(a) \/ ConfirmFlush(a) \/ Dispatch(a) \/ StatusFlush(a)
         \/ CancelFlush(a)
  PROVE  ReadInv'
<1> DEFINE p == act[a].pipe
           texts == Analysable(pipe[p].key)
           done == [pipe[p] EXCEPT !.status = "COMPLETED", !.doneAt = nposted, !.noop = TRUE]
           run == [pipe[p] EXCEPT !.status = "RUNNING", !.confirmed = act[a].count]
           read == IF texts = {} THEN [pipe[p] EXCEPT !.status = "FAILED"]
                                 ELSE [pipe[p] EXCEPT !.read = texts]
           seen == [pipe[p] EXCEPT !.count = act[a].count, !.noop = FALSE]
           gone == [pipe[p] EXCEPT !.status = "CANCELLED"]
<1>1. /\ ActorsInv /\ RowsInv /\ act \in [Actor -> ActRecord]
      /\ pipe \in [Pipe -> PipeRecord \cup {NoPipe}] /\ UNCHANGED posts /\ npipes' = npipes
  BY DEF TypeInv, RowsInv, ActorsInv, CompleteEmpty, ConfirmFlush, Dispatch, StatusFlush,
    CancelFlush
<1>2. p \in 1..npipes /\ ReadActor(act[a])
  BY <1>1, ActorFields DEF CompleteEmpty, ConfirmFlush, Dispatch, StatusFlush, CancelFlush,
    At, WellFormed, ReadInv
<1>3. pipe[p] \in PipeRecord /\ ReadRow(pipe[p])
  BY <1>1, <1>2, RowFields DEF ReadInv
<1>5. KnownBy(pipe[p].key, pipe[p].confirmed) \subseteq texts
  BY DEF KnownBy
<1>6. ASSUME NEW row, pipe' = [pipe EXCEPT ![p] = row], Release(a), row.key = pipe[p].key,
             ReadRow(row), row.read = pipe[p].read \/ row.read = Analysable(row.key),
             pipe[p].status # "AWAITING_CONFIRMATION" => row.status # "AWAITING_CONFIRMATION"
      PROVE  ReadInv'
  <2>1. \A b \in Actor : act'[b] = act[b] \/ act'[b].pc \notin {"confirmed", "dispatch"}
    BY <1>1, <1>6, LeftPc
  <2> HIDE DEF p
  <2> QED BY <1>1, <1>2, <1>6, <2>1, ReadRowChange
<1>7. CASE CompleteEmpty(a)
  <2>1. pipe' = [pipe EXCEPT ![p] = done] /\ Release(a)
    BY <1>7 DEF CompleteEmpty
  <2> HIDE DEF p, texts
  <2>2. /\ done.key = pipe[p].key /\ done.status = "COMPLETED"
        /\ done.confirmed = pipe[p].confirmed /\ done.read = pipe[p].read
    BY <1>3 DEF PipeRecord
  <2> HIDE DEF done
  <2>3. ReadRow(done)
    BY <1>3, <2>2 DEF ReadRow
  <2> QED BY <1>6, <2>1, <2>2, <2>3
<1>8. CASE ConfirmFlush(a)
  <2>1. pipe' = [pipe EXCEPT ![p] = run] /\ act[a].pc = "confirmed"
    BY <1>8 DEF ConfirmFlush, At
  <2>2. act' = [act EXCEPT ![a] = [act[a] EXCEPT !.pc = "dispatch"]]
    BY <1>1, <1>8 DEF ConfirmFlush, Goto
  <2>3. /\ [act[a] EXCEPT !.pc = "dispatch"].pc = "dispatch"
        /\ [act[a] EXCEPT !.pc = "dispatch"].pipe = p
    BY <1>1 DEF ActRecord
  <2>4. /\ run.key = pipe[p].key /\ run.status = "RUNNING"
        /\ run.confirmed = act[a].count /\ run.read = pipe[p].read
    BY <1>3 DEF PipeRecord
  <2>5. /\ act[a].count <= nposted
        /\ pipe[p].read # {} => KnownBy(pipe[p].key, act[a].count) \subseteq pipe[p].read
    BY <1>2, <2>1 DEF ReadActor
  <2>6. ReadRow(run)
    <3> HIDE DEF run
    <3> QED BY <2>4, <2>5 DEF ReadRow
  <2>7. \A b \in Actor : \/ act'[b] = act[b]
                         \/ /\ act'[b].pc = "dispatch" /\ act'[b].pipe = p
                            /\ run.status # "AWAITING_CONFIRMATION"
    BY <1>1, <2>2, <2>3, <2>4
  <2> HIDE DEF p, run
  <2> QED BY <1>1, <1>2, <2>1, <2>4, <2>6, <2>7, ReadRowChange
<1>9. CASE Dispatch(a)
  <2>1. pipe' = [pipe EXCEPT ![p] = read] /\ Release(a) /\ act[a].pc = "dispatch"
    BY <1>9 DEF Dispatch, At
  <2>2. pipe[p].status # "AWAITING_CONFIRMATION"
    BY <1>2, <2>1 DEF ReadActor
  <2>3. /\ read.key = pipe[p].key /\ read.confirmed = pipe[p].confirmed
        /\ read.status \in {pipe[p].status, "FAILED"}
        /\ read.read = pipe[p].read \/ read.read = texts
    <3> HIDE DEF p, texts
    <3> QED BY <1>3 DEF PipeRecord
  <2> HIDE DEF read
  <2>4. ReadRow(read)
    BY <1>3, <1>5, <2>2, <2>3 DEF ReadRow
  <2> HIDE DEF p
  <2> QED BY <1>6, <2>1, <2>2, <2>3, <2>4
<1>10. CASE StatusFlush(a)
  <2>1. pipe' = [pipe EXCEPT ![p] = seen] /\ Release(a)
    BY <1>10 DEF StatusFlush
  <2> HIDE DEF p, texts
  <2>2. /\ seen.key = pipe[p].key /\ seen.status = pipe[p].status
        /\ seen.confirmed = pipe[p].confirmed /\ seen.read = pipe[p].read
    BY <1>3 DEF PipeRecord
  <2> HIDE DEF seen
  <2>3. ReadRow(seen)
    BY <1>3, <2>2 DEF ReadRow
  <2> QED BY <1>6, <2>1, <2>2, <2>3
<1>11. CASE CancelFlush(a)
  <2>1. pipe' = [pipe EXCEPT ![p] = gone] /\ Release(a)
    BY <1>1, <1>2, <1>11 DEF CancelFlush
  <2> HIDE DEF p, texts
  <2>2. /\ gone.key = pipe[p].key /\ gone.status = "CANCELLED"
        /\ gone.confirmed = pipe[p].confirmed /\ gone.read = pipe[p].read
    BY <1>3 DEF PipeRecord
  <2> HIDE DEF gone
  <2>3. ReadRow(gone)
    BY <1>3, <2>2 DEF ReadRow
  <2> QED BY <1>6, <2>1, <2>2, <2>3
<1> QED BY <1>7, <1>8, <1>9, <1>10, <1>11

\* Every step keeps to it.
LEMMA ReadStep ==
  ASSUME TypeInv, TypeInv', ReadInv, [Next]_vars
  PROVE  ReadInv'
<1>0. /\ ActorsInv /\ RowsInv /\ pipe \in [Pipe -> PipeRecord \cup {NoPipe}]
      /\ act \in [Actor -> ActRecord] /\ npipes \in 0..MaxPipes
  BY DEF TypeInv, RowsInv, ActorsInv
<1>1. CASE UNCHANGED vars
  BY <1>1, ReadQuiet DEF vars, posts, rows
<1>2. ASSUME NEW c \in Comment, NEW S \in Footprint, NEW v \in Version, Post(c, S, v)
      PROVE  ReadInv'
  BY <1>2, ReadPost
<1>3. ASSUME NEW p \in Pipe, Complete(p) \/ Fail(p) PROVE ReadInv'
  <2>1. p \in 1..npipes /\ npipes' = npipes /\ UNCHANGED posts /\ act' = act
    BY <1>0, <1>3 DEF Complete, Fail, Active, Pipe
  <2> DEFINE done == [pipe[p] EXCEPT !.status = "COMPLETED", !.doneAt = nposted]
             failed == [pipe[p] EXCEPT !.status = "FAILED"]
  <2>2. pipe[p] \in PipeRecord /\ ReadRow(pipe[p])
    BY <1>0, <2>1, RowFields DEF ReadInv
  <2>3. /\ done.key = pipe[p].key /\ done.status = "COMPLETED"
        /\ done.confirmed = pipe[p].confirmed /\ done.read = pipe[p].read
        /\ failed.key = pipe[p].key /\ failed.status = "FAILED"
        /\ failed.confirmed = pipe[p].confirmed /\ failed.read = pipe[p].read
    BY <2>2 DEF PipeRecord
  <2>4. pipe' = [pipe EXCEPT ![p] = done] \/ pipe' = [pipe EXCEPT ![p] = failed]
    BY <1>0, <1>3 DEF Complete, Fail
  <2> HIDE DEF done, failed
  <2>5. ReadRow(done) /\ ReadRow(failed)
    BY <2>2, <2>3 DEF ReadRow
  <2> QED BY <2>1, <2>3, <2>4, <2>5, ReadRowChange
<1>4. CASE Crash
  <2>1. \A b \in Actor : act'[b].pc = "idle"
    BY <1>4 DEF Crash, Idle
  <2> QED BY <1>4, <2>1, ReadQuiet DEF Crash
<1>5. ASSUME NEW t \in Tier, TierFires(t) \/ TierStep(t) PROVE ReadInv'
  <2>1. UNCHANGED posts /\ UNCHANGED rows /\ t \in Actor /\ act[t] \in ActRecord /\ Idle \in ActRecord
    BY <1>0, <1>5, IdleRecord, ActorFields DEF Actor, TierFires, TierStep, TierEnds, Evaluate
  <2>2. ASSUME NEW r, act' = [act EXCEPT ![t] = r], r.pc \notin {"confirmed", "dispatch"}
        PROVE  ReadInv'
    BY <1>0, <2>1, <2>2, ReadQuiet
  <2>3. CASE TierFires(t) \/ TierEnds(t)
    <3>1. [Idle EXCEPT !.pc = "next", !.todo = Listed(t)].pc = "next" /\ Idle.pc = "idle"
      BY DEF Idle
    <3> QED BY <2>2, <2>3, <3>1 DEF TierFires, TierEnds
  <2>4. CASE Evaluate(t)
    <3>1. PICK e \in act[t].todo :
            LET left == [act[t] EXCEPT !.todo = @ \ {e}] IN
            act' = [act EXCEPT ![t] =
              IF Changed(e[1], e[2])
                THEN [left EXCEPT !.pc = "find", !.key = <<e[1], AllVersions>>]
                ELSE left]
      BY <2>4 DEF Evaluate
    <3> DEFINE left == [act[t] EXCEPT !.todo = act[t].todo \ {e}]
               found == [left EXCEPT !.pc = "find", !.key = <<e[1], AllVersions>>]
               r == IF Changed(e[1], e[2]) THEN found ELSE left
    <3>2. left.pc = "next" /\ found.pc = "find"
      BY <2>1, <2>4 DEF ActRecord, Evaluate, At
    <3>3. act' = [act EXCEPT ![t] = r]
      BY <2>1, <3>1 DEF ActRecord
    <3> HIDE DEF left, found
    <3>4. r.pc \notin {"confirmed", "dispatch"}
      BY <3>2
    <3> HIDE DEF r
    <3> QED BY <2>2, <3>3, <3>4
  <2> QED BY <1>5, <2>3, <2>4 DEF TierStep
<1>6. ASSUME NEW a \in Actor, ActorStep(a) PROVE ReadInv'
  <2>1. ASSUME Release(a), UNCHANGED posts, UNCHANGED rows PROVE ReadInv'
    BY <1>0, <2>1, LeftPc, ReadQuiet
  <2>2. ASSUME NEW key, NEW p \in ActiveOf(key), Returned(a, p, pipe[p]),
               UNCHANGED posts, UNCHANGED rows
        PROVE  ReadInv'
    <3>1. p \in 1..npipes
      BY <1>0, <2>2 DEF ActiveOf, Active, Pipe
    <3>2. PICK r \in ActRecord : act' = [act EXCEPT ![a] = r] /\ r.pc \notin {"confirmed", "dispatch"}
      BY <1>0, <2>2, <3>1, ReturnedRecord
    <3> QED BY <1>0, <2>2, <3>2, ReadQuiet
  <2>3. CASE FindActive(a)
    <3>1. CASE ActiveOf(act[a].key) = {}
      <4> DEFINE n == CommentCount(act[a].key)
                 r == [act[a] EXCEPT !.pc = "insert", !.count = n]
      <4>1. act' = [act EXCEPT ![a] = r]
        BY <2>3, <3>1 DEF FindActive
      <4> HIDE DEF n
      <4>2. r.pc = "insert"
        BY <1>0 DEF ActRecord
      <4> HIDE DEF r
      <4> QED BY <1>0, <2>3, <4>1, <4>2, ReadQuiet DEF FindActive
    <3> QED BY <2>2, <2>3, <3>1 DEF FindActive
  <2>4. CASE InsertConflict(a)
    <3>1. act' = [act EXCEPT ![a] = [act[a] EXCEPT !.pc = "refetch"]]
      BY <1>0, <2>4 DEF InsertConflict, Goto
    <3>2. [act[a] EXCEPT !.pc = "refetch"].pc = "refetch"
      BY <1>0 DEF ActRecord
    <3> QED BY <1>0, <2>4, <3>1, <3>2, ReadQuiet DEF InsertConflict
  <2>5. CASE Refetch(a) \/ InsertFails(a) \/ ConfirmRefused(a) \/ ConfirmConflict(a) \/ StatusShow(a)
    BY <2>1, <2>2, <2>5 DEF Refetch, InsertFails, ConfirmRefused, ConfirmConflict, StatusShow
  <2> QED BY <1>6, <2>3, <2>4, <2>5, ReadConfirm, ReadInsert, ReadWrite DEF ActorStep
<1> QED BY <1>1, <1>2, <1>3, <1>4, <1>5, <1>6, ReadAsk DEF Next

\* However late the confirmation is flushed and however often the row is
\* confirmed or cancelled beside it, a dispatch leaves out no analysable
\* submission that existed when its pipeline was confirmed.
THEOREM NothingLeftOutCorrect == Spec => []NothingLeftOut
<1>1. Init => TypeInv /\ ReadInv
  <2> SUFFICES ASSUME Init PROVE TypeInv /\ ReadInv
    OBVIOUS
  <2>1. npipes = 0 /\ \A a \in Actor : act[a].pc = "idle"
    BY DEF Init, Idle
  <2> QED BY <2>1, TypeStart DEF ReadInv, ReadActor
<1>2. TypeInv /\ ReadInv /\ [Next]_vars => TypeInv' /\ ReadInv'
  BY TypeStep, ReadStep
<1>3. TypeInv /\ ReadInv => NothingLeftOut
  BY ReadImplies DEF TypeInv
<1> QED BY <1>1, <1>2, <1>3, PTL DEF Spec

-----------------------------------------------------------------------------
(* What a confirmation locks in.                                           *)

\* A row past its confirmation, that nobody refreshes, keeps its coverage.
Keeps(p) ==
  /\ p <= npipes /\ pipe[p].status # "AWAITING_CONFIRMATION"
  /\ ~BeingCovered(p)
  => /\ pipe'[p].count = pipe[p].count
     /\ pipe[p].noop => pipe'[p].noop

\* Only a status request that read the waiting row may move its coverage.
LEMMA KeepsStep ==
  ASSUME TypeInv, [Next]_vars, NEW p \in Pipe
  PROVE  Keeps(p)
<1>0. /\ ActorsInv /\ RowsInv /\ pipe \in [Pipe -> PipeRecord \cup {NoPipe}]
      /\ npipes \in 0..MaxPipes
  BY DEF TypeInv, RowsInv
<1> SUFFICES ASSUME p <= npipes, ~BeingCovered(p)
             PROVE  pipe'[p].count = pipe[p].count /\ (pipe[p].noop => pipe'[p].noop)
  BY DEF Keeps
<1>1. p \in 1..npipes /\ pipe[p] \in PipeRecord
  BY <1>0 DEF Pipe, RowsInv
<1>2. ASSUME pipe' = pipe PROVE pipe'[p].count = pipe[p].count /\ (pipe[p].noop => pipe'[p].noop)
  BY <1>2
<1>3. CASE \/ UNCHANGED vars
           \/ \E c \in Comment, S \in Footprint, v \in Version : Post(c, S, v)
           \/ Crash
           \/ \E a \in Caller : Ask(a)
           \/ \E t \in Tier : TierFires(t) \/ TierStep(t)
  BY <1>2, <1>3 DEF vars, Post, Crash, Ask, AskCreate, AskConfirm, StatusRead, CancelRead,
    Request, TierFires, TierStep, TierEnds, Evaluate, rows
<1>4. ASSUME NEW q \in Pipe, Complete(q) \/ Fail(q)
      PROVE  pipe'[p].count = pipe[p].count /\ (pipe[p].noop => pipe'[p].noop)
  <2>1. CASE q # p
    BY <1>0, <1>4, <2>1 DEF Complete, Fail
  <2>2. CASE q = p
    <3>1. \/ pipe'[p] = [pipe[p] EXCEPT !.status = "COMPLETED", !.doneAt = nposted]
          \/ pipe'[p] = [pipe[p] EXCEPT !.status = "FAILED"]
      BY <1>0, <1>4, <2>2 DEF Complete, Fail
    <3> QED BY <1>1, <3>1 DEF PipeRecord
  <2> QED BY <2>1, <2>2
<1>5. ASSUME NEW a \in Actor, ActorStep(a)
      PROVE  pipe'[p].count = pipe[p].count /\ (pipe[p].noop => pipe'[p].noop)
  <2>1. CASE \/ FindActive(a) \/ InsertFails(a) \/ InsertConflict(a) \/ Refetch(a)
             \/ ConfirmRead(a) \/ ConfirmRefused(a) \/ ConfirmConflict(a) \/ StatusShow(a)
    BY <1>2, <2>1 DEF FindActive, InsertFails, InsertConflict, Refetch, ConfirmRead,
      ConfirmRefused, ConfirmConflict, StatusShow, rows
  <2>2. CASE Insert(a)
    <3>1. pipe'[p] = pipe[p]
      BY <1>0, <1>1, <2>2 DEF Insert
    <3> QED BY <3>1
  <2>3. CASE StatusFlush(a)
    <3>1. a \in Caller
      BY <1>0, <2>3, ActorFields DEF StatusFlush, At, WellFormed
    <3>2. act[a].pipe # p
      BY <2>3, <3>1 DEF StatusFlush, BeingCovered
    <3>3. pipe'[p] = pipe[p]
      BY <1>0, <2>3, <3>2 DEF StatusFlush
    <3> QED BY <3>3
  <2>4. CASE CompleteEmpty(a) \/ ConfirmFlush(a) \/ Dispatch(a) \/ CancelFlush(a)
    <3> DEFINE q == act[a].pipe
               texts == Analysable(pipe[p].key)
    <3>1. CASE q # p
      BY <1>0, <2>4, <3>1 DEF CompleteEmpty, ConfirmFlush, Dispatch, CancelFlush
    <3>2. CASE q = p
      <4>1. \/ pipe'[p] = [pipe[p] EXCEPT !.status = "COMPLETED", !.doneAt = nposted, !.noop = TRUE]
            \/ pipe'[p] = [pipe[p] EXCEPT !.status = "RUNNING", !.confirmed = act[a].count]
            \/ pipe'[p] = [pipe[p] EXCEPT !.status = "FAILED"]
            \/ pipe'[p] = [pipe[p] EXCEPT !.read = texts]
            \/ pipe'[p] = [pipe[p] EXCEPT !.status = "CANCELLED"]
        BY <1>0, <2>4, <3>2 DEF CompleteEmpty, ConfirmFlush, Dispatch, CancelFlush
      <4> HIDE DEF texts
      <4> QED BY <1>1, <4>1 DEF PipeRecord
    <3> QED BY <3>1, <3>2
  <2> QED BY <1>5, <2>1, <2>2, <2>3, <2>4 DEF ActorStep
<1> QED BY <1>3, <1>4, <1>5 DEF Next

\* "Must not drift": the coverage and the mark of an empty run of a row past its
\* confirmation change only by a status request that had read it while it waited.
THEOREM LockedInCorrect == Spec => LockedIn
<1>1. TypeInv /\ [Next]_vars =>
        [\A p \in Pipe :
           /\ p <= npipes /\ pipe[p].status # "AWAITING_CONFIRMATION"
           /\ ~BeingCovered(p)
           => /\ pipe'[p].count = pipe[p].count
              /\ pipe[p].noop => pipe'[p].noop]_vars
  BY KeepsStep DEF Keeps
<1>2. Init => TypeInv
  BY TypeStart
<1>3. TypeInv /\ [Next]_vars => TypeInv'
  BY TypeStep
<1> QED BY <1>1, <1>2, <1>3, PTL DEF Spec, LockedIn

-----------------------------------------------------------------------------
(* Roles and scopes.                                                       *)

USE RolesAssumption DEF RolesAssumption

-----------------------------------------------------------------------------
(* The inductive invariant.                                                *)

\* A request, a login in progress is some user's.
Begun ==
  /\ admin.pc # "idle" => admin.user \in User
  /\ login.pc = "commit" => login.user \in User

RolesInv == RolesTypeOK /\ Begun

LEMMA KeyOf ==
  ASSUME NEW r \in InstRecord, NEW s \in InstRecord, RoleKey(r) = RoleKey(s)
  PROVE  r.user = s.user /\ r.role = s.role /\ r.cat = s.cat
BY DEF RoleKey

LEMMA DerivedRoles ==
  ASSUME NEW u \in User, NEW courses \in [Program -> Taken], NEW own \in SUBSET InstRecord
  PROVE  Derived(u, courses, own) \in SUBSET Role
<1>1. Fixed[u] \subseteq Role
  BY DEF Role
<1>2. ASSUME NEW p \in Program PROVE Mapped(courses[p]) \subseteq Role
  <2>1. courses[p] \in {"student", "teacher", "manager", "none"}
    BY DEF Taken
  <2> QED BY <2>1 DEF Mapped, Role, InstRole
<1>3. ASSUME NEW r \in own PROVE r.role \in Role
  BY DEF InstRecord, Role
<1>4. ASSUME NEW x \in Derived(u, courses, own) PROVE x \in Role
  <2>1. \/ x \in Fixed[u]
        \/ x \in UNION {Mapped(courses[p]) : p \in Program}
        \/ x \in {r.role : r \in own}
    BY DEF Derived
  <2>2. CASE x \in UNION {Mapped(courses[p]) : p \in Program}
    <3>1. PICK p \in Program : x \in Mapped(courses[p])
      BY <2>2
    <3> QED BY <1>2, <3>1
  <2> QED BY <1>1, <1>3, <2>1, <2>2
<1> QED BY <1>4

LEMMA StoredAt ==
  ASSUME NEW role \in InstRole, NEW cat \in Category
  PROVE  Stored(role, cat) \subseteq Category
<1>1. cat \in Program => DeptOf[cat] \in Category
  BY DEF Category
<1> QED BY <1>1 DEF Stored, InstRole, Category

LEMMA RowsOf ==
  ASSUME RolesTypeOK, NEW u
  PROVE  InstOf(u) \in SUBSET InstRecord
BY DEF RolesTypeOK, InstOf

\* Rows after an upsert or a removal.
LEMMA InstKept ==
  ASSUME RolesTypeOK, NEW kept \in SUBSET inst, NEW new \in SUBSET InstRecord,
         \A r, s \in new : RoleKey(r) = RoleKey(s) => r = s,
         \A r \in kept, s \in new : RoleKey(r) # RoleKey(s),
         inst' = kept \cup new
  PROVE  /\ inst' \subseteq InstRecord
         /\ \A r, s \in inst' : RoleKey(r) = RoleKey(s) => r = s
BY DEF RolesTypeOK

LEMMA RolesBegin == RolesInit => RolesInv
<1> SUFFICES ASSUME RolesInit PROVE RolesInv
  OBVIOUS
<1>1. enrol \in [User -> [Program -> Taken]] /\ roles \in [User -> SUBSET Role]
  BY DEF RolesInit, NoCourses, Taken, Role
<1>2. /\ admin \in AdminRecord /\ admin.pc = "idle"
  BY DEF RolesInit, AdminIdle, AdminRecord
<1>3. /\ login \in LoginRecord /\ login.pc = "idle"
  BY DEF RolesInit, LoginIdle, LoginRecord, NoCourses, Taken
<1>4. sync \in SyncRecord
  BY DEF RolesInit, SyncIdle, SyncRecord, Lists, Taken
<1>5. inst = {} /\ ops \in 0..MaxOps
  BY DEF RolesInit
<1> QED BY <1>1, <1>2, <1>3, <1>4, <1>5 DEF RolesInv, RolesTypeOK, Begun

\* A step that leaves the own alone.
LEMMA SameRows ==
  ASSUME RolesInv, inst' = inst, Begun',
         enrol' \in [User -> [Program -> Taken]], roles' \in [User -> SUBSET Role],
         admin' \in AdminRecord, login' \in LoginRecord, sync' \in SyncRecord,
         ops' \in 0..MaxOps
  PROVE  RolesInv'
BY DEF RolesInv, RolesTypeOK, RoleKey

LEMMA AdminStep ==
  ASSUME RolesInv, NEW u \in User, AdminBegins(u),
         inst' \subseteq InstRecord, \A r, s \in inst' : RoleKey(r) = RoleKey(s) => r = s
  PROVE  RolesInv'
<1>1. [AdminIdle EXCEPT !.pc = "read", !.user = u] \in AdminRecord
  BY DEF AdminIdle, AdminRecord
<1>2. [AdminIdle EXCEPT !.pc = "read", !.user = u].user = u
  BY DEF AdminIdle
<1>3. /\ admin' \in AdminRecord /\ admin'.user \in User
      /\ UNCHANGED <<enrol, roles, login, sync>>
  BY <1>1, <1>2 DEF AdminBegins
<1>4. ops' \in 0..MaxOps
  BY DEF AdminBegins, RolesInv, RolesTypeOK
<1> QED BY <1>3, <1>4 DEF RolesInv, RolesTypeOK, Begun, RoleKey

LEMMA AssignStep ==
  ASSUME RolesInv, NEW u \in User, NEW role \in InstRole, NEW cat \in Category,
         Assign(u, role, cat) \/ Unassign(u, role, cat)
  PROVE  RolesInv'
<1>1. RolesTypeOK /\ AdminBegins(u)
  BY DEF RolesInv, Assign, Unassign
<1>2. CASE Assign(u, role, cat)
  <2>1. PICK c \in Stored(role, cat) :
          inst' = {r \in inst : RoleKey(r) #
                     RoleKey([user |-> u, role |-> role, cat |-> c, source |-> "manual"])}
                  \cup {[user |-> u, role |-> role, cat |-> c, source |-> "manual"]}
    BY <1>2 DEF Assign
  <2> DEFINE row == [user |-> u, role |-> role, cat |-> c, source |-> "manual"]
             kept == {r \in inst : RoleKey(r) # RoleKey(row)}
  <2>2. row \in InstRecord
    BY StoredAt DEF InstRecord
  <2> PICK new : new = {row}
    OBVIOUS
  <2>3. inst' = kept \cup new /\ kept \in SUBSET inst
    BY <2>1
  <2>4. \A r \in kept, s \in new : RoleKey(r) # RoleKey(s)
    OBVIOUS
  <2>5. new \in SUBSET InstRecord /\ \A r, s \in new : RoleKey(r) = RoleKey(s) => r = s
    BY <2>2
  <2> HIDE DEF row, kept
  <2>6. inst' \subseteq InstRecord /\ \A r, s \in inst' : RoleKey(r) = RoleKey(s) => r = s
    BY ONLY <1>1, <2>3, <2>4, <2>5, InstKept
  <2> QED BY <1>1, <2>6, AdminStep
<1>3. CASE Unassign(u, role, cat)
  <2>1. inst' \subseteq inst
    BY <1>3 DEF Unassign
  <2>2. inst' \subseteq InstRecord /\ \A r, s \in inst' : RoleKey(r) = RoleKey(s) => r = s
    BY <1>1, <2>1 DEF RolesTypeOK
  <2> QED BY <1>1, <2>2, AdminStep
<1> QED BY <1>2, <1>3

LEMMA RefreshStep ==
  ASSUME RolesInv, RefreshRead \/ RefreshFlush
  PROVE  RolesInv'
<1>1. /\ RolesTypeOK /\ Begun /\ admin \in AdminRecord
      /\ enrol \in [User -> [Program -> Taken]] /\ roles \in [User -> SUBSET Role]
  BY DEF RolesInv, RolesTypeOK
<1>2. CASE RefreshRead
  <2> PICK to : to = Derived(admin.user, enrol[admin.user], InstOf(admin.user))
    OBVIOUS
  <2>1. admin' = [admin EXCEPT !.pc = "flush", !.to = to] /\ admin.user \in User
    BY <1>1, <1>2 DEF RefreshRead, Begun
  <2>2. to \in SUBSET Role
    <3>1. enrol[admin.user] \in [Program -> Taken]
      BY <1>1, <2>1
    <3> QED BY <1>1, <2>1, <3>1, DerivedRoles, RowsOf
  <2>3. admin' \in AdminRecord /\ admin'.user = admin.user
    BY <1>1, <2>1, <2>2 DEF AdminRecord
  <2> QED BY <1>1, <1>2, <2>1, <2>3, SameRows DEF RefreshRead, Begun, RolesTypeOK
<1>3. CASE RefreshFlush
  <2>1. admin' \in AdminRecord /\ admin'.pc = "idle"
    BY <1>3 DEF RefreshFlush, AdminIdle, AdminRecord
  <2>2. roles' \in [User -> SUBSET Role]
    BY <1>1, <1>3 DEF RefreshFlush, AdminRecord
  <2> QED BY <1>1, <1>3, <2>1, <2>2, SameRows DEF RefreshFlush, Begun, RolesTypeOK
<1> QED BY <1>2, <1>3

LEMMA HydrateStep ==
  ASSUME RolesInv, NEW u \in User, NEW courses \in [Program -> Taken],
         NEW detected \in SUBSET Program, Hydrate(u, courses, detected)
  PROVE  RolesInv'
<1>1. RolesTypeOK /\ Begun
  BY DEF RolesInv
<1>2. login' \in LoginRecord /\ login'.user = u
  <2>1. InstOf(u) \in SUBSET InstRecord
    BY <1>1, RowsOf
  <2> QED BY <2>1 DEF Hydrate, LoginRecord
<1>3. ops' \in 0..MaxOps
  BY <1>1 DEF Hydrate, RolesTypeOK
<1> QED BY <1>1, <1>2, <1>3, SameRows DEF Hydrate, Begun, RolesTypeOK

Kept == {r \in inst :
           RoleKey(r) \notin {RoleKey(x) : x \in Dropped(login.seen, login.detected)}}
Fresh == {[user |-> login.user, role |-> "CHAIRPERSON", cat |-> p, source |-> "auto"]
            : p \in Promoted(login.seen, login.detected)}
Added == {r \in Fresh : RoleKey(r) \notin {RoleKey(x) : x \in Kept}}

\* The own a hydration leaves.
LEMMA Hydrated ==
  ASSUME RolesInv, HydrateCommit
  PROVE  /\ inst' = Kept \cup Added /\ Kept \in SUBSET inst /\ Added \in SUBSET InstRecord
         /\ \A r, s \in Added : RoleKey(r) = RoleKey(s) => r = s
         /\ \A r \in Kept, s \in Added : RoleKey(r) # RoleKey(s)
         /\ \A r \in Added : r.source = "auto"
<1>1. inst' = Kept \cup Added
  BY DEF HydrateCommit, Kept, Added, Fresh
<1>2. login.user \in User /\ Promoted(login.seen, login.detected) \subseteq Program
  BY DEF RolesInv, RolesTypeOK, Begun, HydrateCommit, Promoted, LoginRecord
<1>3. ASSUME NEW r \in Added
      PROVE  \E p \in Program :
               r = [user |-> login.user, role |-> "CHAIRPERSON", cat |-> p, source |-> "auto"]
  BY <1>2 DEF Added, Fresh
<1>4. ASSUME NEW r \in Added PROVE r \in InstRecord /\ r.source = "auto"
  BY <1>2, <1>3 DEF InstRecord, InstRole, Category
<1>5. ASSUME NEW r \in Added, NEW s \in Added, RoleKey(r) = RoleKey(s) PROVE r = s
  <2>1. r.cat = s.cat
    BY <1>4, <1>5, KeyOf
  <2> QED BY <1>3, <2>1
<1>6. ASSUME NEW r \in Kept, NEW s \in Added PROVE RoleKey(r) # RoleKey(s)
  BY DEF Added
<1> QED BY <1>1, <1>4, <1>5, <1>6 DEF Kept

LEMMA HydrateCommitStep ==
  ASSUME RolesInv, HydrateCommit
  PROVE  RolesInv'
<1>1. /\ RolesTypeOK /\ Begun /\ login.user \in User /\ login \in LoginRecord
      /\ enrol \in [User -> [Program -> Taken]] /\ roles \in [User -> SUBSET Role]
  BY DEF RolesInv, RolesTypeOK, Begun, HydrateCommit
<1>2. inst' \subseteq InstRecord /\ \A r, s \in inst' : RoleKey(r) = RoleKey(s) => r = s
  BY <1>1, Hydrated, InstKept
<1> PICK courses : courses = [p \in Program |->
                                IF login.courses[p] = "none" THEN enrol[login.user][p]
                                                             ELSE login.courses[p]]
  OBVIOUS
<1> PICK own : own = {r \in inst' : r.user = login.user}
  OBVIOUS
<1>3. /\ enrol' = [enrol EXCEPT ![login.user] = courses]
      /\ roles' = [roles EXCEPT ![login.user] = Derived(login.user, courses, own)]
      /\ login' = LoginIdle /\ UNCHANGED <<admin, sync, ops>>
  BY DEF HydrateCommit
<1>4. courses \in [Program -> Taken]
  BY <1>1 DEF LoginRecord
<1>5. Derived(login.user, courses, own) \in SUBSET Role
  BY <1>1, <1>2, <1>4, DerivedRoles
<1>6. enrol' \in [User -> [Program -> Taken]] /\ roles' \in [User -> SUBSET Role]
  BY <1>1, <1>3, <1>4, <1>5
<1>7. login' \in LoginRecord /\ login'.pc = "idle"
  BY <1>3 DEF LoginIdle, LoginRecord, NoCourses, Taken
<1> QED BY <1>1, <1>2, <1>3, <1>6, <1>7 DEF RolesInv, RolesTypeOK, Begun, RoleKey

LEMMA SyncStep ==
  ASSUME RolesInv,
         \/ \E fetched \in SUBSET Program, lists \in Lists : SyncFetch(fetched, lists)
         \/ SyncCourse \/ SyncCourseFails \/ SyncDerive \/ SyncFlush
  PROVE  RolesInv'
<1>1. /\ RolesTypeOK /\ Begun /\ sync \in SyncRecord
      /\ enrol \in [User -> [Program -> Taken]] /\ roles \in [User -> SUBSET Role]
  BY DEF RolesInv, RolesTypeOK
<1>2. SyncIdle \in SyncRecord
  BY DEF SyncIdle, SyncRecord, Lists, Taken
<1>3. ASSUME NEW fetched \in SUBSET Program, NEW lists \in Lists, SyncFetch(fetched, lists)
      PROVE  RolesInv'
  <2>1. [SyncIdle EXCEPT !.pc = "courses", !.todo = fetched, !.lists = lists] \in SyncRecord
    BY <1>2 DEF SyncRecord
  <2>2. /\ sync' = [SyncIdle EXCEPT !.pc = "courses", !.todo = fetched, !.lists = lists]
        /\ ops < MaxOps /\ ops' = ops + 1
        /\ UNCHANGED <<enrol, inst, roles, admin, login>>
    BY <1>3, Zenon DEF SyncFetch
  <2>3. sync' \in SyncRecord
    BY <2>1, <2>2, Zenon
  <2>4. ops' \in 0..MaxOps
    BY ONLY <1>1, <2>2, RolesAssumption DEF RolesTypeOK, RolesAssumption
  <2> QED BY <1>1, <2>2, <2>3, <2>4, SameRows DEF Begun, RolesTypeOK
<1>4. ASSUME NEW p \in Program PROVE [sync EXCEPT !.todo = @ \ {p}] \in SyncRecord
  BY <1>1 DEF SyncRecord
<1>5. CASE SyncCourse
  <2>1. PICK p \in sync.todo :
          /\ enrol' = [u \in User |-> [enrol[u] EXCEPT ![p] = sync.lists[p][u]]]
          /\ sync' = [sync EXCEPT !.todo = @ \ {p}]
    BY <1>5 DEF SyncCourse
  <2>2. p \in Program /\ sync.lists[p] \in [User -> Taken]
    BY <1>1 DEF SyncRecord, Lists
  <2> PICK list : list = sync.lists[p]
    OBVIOUS
  <2>3. enrol' \in [User -> [Program -> Taken]]
    <3>1. ASSUME NEW u \in User PROVE [enrol[u] EXCEPT ![p] = list[u]] \in [Program -> Taken]
      BY <1>1, <2>2
    <3>2. enrol' = [u \in User |-> [enrol[u] EXCEPT ![p] = list[u]]]
      BY <2>1, Zenon
    <3> QED BY <3>1, <3>2
  <2> QED BY <1>1, <1>4, <1>5, <2>1, <2>2, <2>3, SameRows
        DEF SyncCourse, Begun, RolesTypeOK
<1>6. CASE SyncCourseFails
  <2>1. PICK p \in sync.todo : sync' = [sync EXCEPT !.todo = @ \ {p}]
    BY <1>6 DEF SyncCourseFails
  <2>2. p \in Program
    BY <1>1 DEF SyncRecord
  <2> QED BY <1>1, <1>4, <1>6, <2>1, <2>2, SameRows DEF SyncCourseFails, Begun, RolesTypeOK
<1>7. CASE SyncDerive
  <2> PICK to : to = [u \in User |->
                        IF u \in Enrolled THEN Derived(u, enrol[u], InstOf(u)) ELSE {}]
    OBVIOUS
  <2> PICK changed : changed = {u \in Enrolled : to[u] # roles[u]}
    OBVIOUS
  <2>1. /\ sync' = [SyncIdle EXCEPT !.pc = "flush", !.to = to, !.changed = changed]
        /\ UNCHANGED <<enrol, inst, roles, admin, login, ops>>
    BY <1>7 DEF SyncDerive
  <2>2. ASSUME NEW u \in User PROVE Derived(u, enrol[u], InstOf(u)) \in SUBSET Role
    BY <1>1, DerivedRoles, RowsOf
  <2>3. to \in [User -> SUBSET Role] /\ changed \in SUBSET User
    BY <2>2 DEF Enrolled
  <2>4. sync' \in SyncRecord
    BY <1>2, <2>1, <2>3 DEF SyncRecord
  <2> QED BY <1>1, <2>1, <2>4, SameRows DEF Begun, RolesTypeOK
<1>8. CASE SyncFlush
  <2>1. roles' \in [User -> SUBSET Role]
    BY <1>1, <1>8 DEF SyncFlush, SyncRecord
  <2> QED BY <1>1, <1>2, <1>8, <2>1, SameRows DEF SyncFlush, Begun, RolesTypeOK
<1> QED BY <1>3, <1>5, <1>6, <1>7, <1>8

LEMMA RolesStay == RolesInv /\ [RolesNext]_rolesVars => RolesInv'
<1> SUFFICES ASSUME RolesInv, [RolesNext]_rolesVars PROVE RolesInv'
  OBVIOUS
<1>1. Staff \subseteq User
  OBVIOUS
<1>2. ASSUME NEW u \in Staff, NEW role \in InstRole, NEW cat \in Category,
             Assign(u, role, cat) \/ Unassign(u, role, cat)
      PROVE  RolesInv'
  BY <1>1, <1>2, AssignStep
<1>3. ASSUME NEW u \in Staff, NEW courses \in [Program -> Taken],
             NEW detected \in SUBSET Program, Hydrate(u, courses, detected)
      PROVE  RolesInv'
  BY <1>1, <1>3, HydrateStep
<1>4. CASE UNCHANGED rolesVars
  BY <1>4 DEF rolesVars, RolesInv, RolesTypeOK, Begun, RoleKey
<1> QED BY <1>2, <1>3, <1>4, RefreshStep, HydrateCommitStep, SyncStep DEF RolesNext

LEMMA RolesHold == RolesSpec => []RolesInv
BY RolesBegin, RolesStay, PTL DEF RolesSpec

-----------------------------------------------------------------------------
(* The theorems.                                                           *)

\* Roles, enrolments and the own of institutional roles are what they are
\* said to be; above all no two own of a user have one role at one category,
\* though administrators, logins and their upserts meet.
THEOREM RolesTypeCorrect == RolesSpec => []RolesTypeOK
<1>1. RolesInv => RolesTypeOK
  BY DEF RolesInv
<1> QED BY <1>1, RolesHold, PTL

\* A login that no administrator overtakes leaves every manual role but a
\* CHAIRPERSON below a department of which the user is manual DEAN, and no such
\* one (MoodleUserHydrationService.resolveInstitutionalRoles).
THEOREM HydrationCorrect == RolesSpec => HydrationRespectsManual
<1> DEFINE Respects ==
      login.pc = "commit" /\ login'.pc = "idle" /\ login.seen = InstOf(login.user)
      => \A r \in login.seen :
           r.source = "manual" =>
             (r \in inst' <=> ~(/\ r.role = "CHAIRPERSON" /\ r.cat \in Program
                                /\ DeptOf[r.cat] \in ManualDean(login.seen)))
<1>1. RolesInv /\ [RolesNext]_rolesVars => [Respects]_rolesVars
  <2> SUFFICES ASSUME RolesInv, [RolesNext]_rolesVars, login.pc = "commit", login'.pc = "idle",
                      login.seen = InstOf(login.user),
                      NEW r \in login.seen, r.source = "manual"
               PROVE  r \in inst' <=> ~Redundant(r, login.seen)
    BY DEF Redundant
  <2>1. HydrateCommit
    BY DEF RolesNext, Assign, Unassign, AdminBegins, RefreshRead, RefreshFlush, Hydrate,
      SyncFetch, SyncCourse, SyncCourseFails, SyncDerive, SyncFlush, rolesVars
  <2>2. r \in inst /\ inst \subseteq InstRecord /\ login.seen \subseteq inst
        /\ \A x, y \in inst : RoleKey(x) = RoleKey(y) => x = y
    BY DEF RolesInv, RolesTypeOK, InstOf
  <2>3. r \in Dropped(login.seen, login.detected) <=> Redundant(r, login.seen)
    BY DEF Dropped, Stale
  <2>4. r \in Kept <=> r \notin Dropped(login.seen, login.detected)
    <3>1. Dropped(login.seen, login.detected) \subseteq inst
      BY <2>2 DEF Dropped
    <3>2. RoleKey(r) \in {RoleKey(x) : x \in Dropped(login.seen, login.detected)}
            <=> \E x \in Dropped(login.seen, login.detected) : RoleKey(r) = RoleKey(x)
      OBVIOUS
    <3>3. RoleKey(r) \in {RoleKey(x) : x \in Dropped(login.seen, login.detected)}
            <=> r \in Dropped(login.seen, login.detected)
      BY <2>2, <3>1, <3>2
    <3> QED BY <2>2, <3>3 DEF Kept
  <2>5. r \in inst' <=> r \in Kept
    BY <2>1, Hydrated
  <2> QED BY <2>3, <2>4, <2>5
<1> QED BY <1>1, RolesHold, PTL DEF RolesSpec, HydrationRespectsManual

-----------------------------------------------------------------------------
(* The rules for pipelines.  They agree for any roles, own and enrolments *)
(* at all, whether reachable or not.                                       *)

USE ScopeAccessAssumption DEF ScopeAccessAssumption

LEMMA ScopesOfViewers ==
  ASSUME NEW v
  PROVE  /\ ResolveCampusIds(v) # Unrestricted => ResolveCampusIds(v) \subseteq {HomeCampus}
         /\ Null \notin ResolveDepartmentIds(v) /\ Null \notin ResolveCampusIds(v)
         /\ v.roles \cap {"SUPER_ADMIN", "DEAN", "CHAIRPERSON"} = {} =>
              /\ ResolveDepartmentIds(v) = CampusHeadDepartments(v)
              /\ ResolveCampusIds(v) = CampusHeadCampuses(v)
<1>1. Null \notin Category /\ Department \subseteq Category /\ Campus \subseteq Category
  BY DEF Category
<1>2. ASSUME NEW p \in Program PROVE DeptOf[p] \in Department
  OBVIOUS
<1>3. /\ DeanDepartments(v) \subseteq Department /\ ChairDepartments(v) \subseteq Department
      /\ CampusHeadDepartments(v) \subseteq Department
      /\ CampusHeadCampuses(v) \subseteq {HomeCampus}
  BY <1>2 DEF DeanDepartments, ChairDepartments, ChairPrograms, CampusHeadDepartments,
    CampusHeadCampuses
<1>4. ResolveDepartmentIds(v) \subseteq Category
  BY <1>1, <1>3 DEF ResolveDepartmentIds, Unrestricted
<1>5. \/ ResolveCampusIds(v) = Unrestricted
      \/ ResolveCampusIds(v) = CampusHeadCampuses(v)
  BY DEF ResolveCampusIds
<1>6. ResolveCampusIds(v) \subseteq Category
  BY <1>1, <1>3, <1>5 DEF Unrestricted
<1>7. v.roles \cap {"SUPER_ADMIN", "DEAN", "CHAIRPERSON"} = {} =>
        /\ ResolveDepartmentIds(v) = CampusHeadDepartments(v)
        /\ ResolveCampusIds(v) = CampusHeadCampuses(v)
  BY DEF ResolveDepartmentIds, ResolveCampusIds
<1> QED BY <1>1, <1>3, <1>4, <1>5, <1>6, <1>7

\* What may be asked for: a single column, or none.
LEMMA AskedRow ==
  ASSUME NEW q \in Asked
  PROVE  /\ q \in Row
         /\ q.faculty # Null => q = [NoScope EXCEPT !.faculty = q.faculty]
         /\ q.department # Null => q.campus = Null
         /\ q = NoScope <=> q.faculty = Null /\ q.department = Null /\ q.campus = Null
<1>1. NoScope \in Row /\ NoScope.faculty = Null /\ NoScope.department = Null
      /\ NoScope.campus = Null
  BY DEF NoScope, Row
<1>2. /\ Null \notin User /\ Null \notin Department /\ Null \notin Campus
  BY DEF Category
<1>3. CASE q = NoScope
  BY <1>1, <1>3
<1>4. ASSUME NEW f \in User, q = [NoScope EXCEPT !.faculty = f]
      PROVE  /\ q \in Row /\ q.faculty = f /\ q.department = Null /\ q.campus = Null
             /\ q # NoScope
  BY <1>1, <1>2, <1>4 DEF Row
<1>5. ASSUME NEW d \in Department, q = [NoScope EXCEPT !.department = d]
      PROVE  /\ q \in Row /\ q.faculty = Null /\ q.department = d /\ q.campus = Null
             /\ q # NoScope
  BY <1>1, <1>2, <1>5 DEF Row
<1>6. ASSUME NEW c \in Campus, q = [NoScope EXCEPT !.campus = c]
      PROVE  /\ q \in Row /\ q.faculty = Null /\ q.department = Null /\ q.campus = c
             /\ q # NoScope
  BY <1>1, <1>2, <1>6 DEF Row
<1>7. \/ q = NoScope
      \/ \E f \in User : q = [NoScope EXCEPT !.faculty = f]
      \/ \E d \in Department : q = [NoScope EXCEPT !.department = d]
      \/ \E c \in Campus : q = [NoScope EXCEPT !.campus = c]
  BY DEF Asked
<1> QED BY <1>2, <1>3, <1>4, <1>5, <1>6, <1>7

LEMMA FilledFrom ==
  ASSUME NEW named, NEW allowed, NEW x \in Filled(named, allowed)
  PROVE  x \in allowed
BY DEF Filled

\* The own a viewer may create.
LEMMA CreatableRow ==
  ASSUME NEW v, NEW q \in Asked, NEW row \in Creatable(v, q)
  PROVE  \/ /\ "SUPER_ADMIN" \in v.roles /\ row = q /\ q # NoScope
         \/ /\ "SUPER_ADMIN" \notin v.roles /\ Scoped(v) /\ q.faculty # Null /\ row = q
            /\ FacultyInUserScope(v, q.faculty)
         \/ /\ "DEAN" \in v.roles /\ q.faculty = Null
            /\ \E d \in ResolveDepartmentIds(v) : row = [q EXCEPT !.department = d]
         \/ /\ "CAMPUS_HEAD" \in v.roles /\ q.faculty = Null /\ q.department # Null
            /\ row = q /\ q.department \in ResolveDepartmentIds(v)
         \/ /\ "CAMPUS_HEAD" \in v.roles /\ q.faculty = Null /\ q.department = Null
            /\ \E c \in ResolveCampusIds(v) : row = [q EXCEPT !.campus = c]
<1>1. CASE "SUPER_ADMIN" \in v.roles
  BY <1>1 DEF Creatable
<1>2. CASE "SUPER_ADMIN" \notin v.roles /\ Scoped(v) /\ q.faculty # Null
  <2>1. row \in {r \in {q} : FacultyInUserScope(v, q.faculty)}
    BY <1>2 DEF Creatable
  <2> QED BY <1>2, <2>1
<1>3. CASE "SUPER_ADMIN" \notin v.roles /\ "DEAN" \in v.roles /\ q.faculty = Null
  <2>1. row \in {[q EXCEPT !.department = d] :
                   d \in Filled(q.department, ResolveDepartmentIds(v))}
    BY <1>3 DEF Creatable, InstRole
  <2>2. PICK d \in Filled(q.department, ResolveDepartmentIds(v)) :
               row = [q EXCEPT !.department = d]
    BY <2>1
  <2>3. d \in ResolveDepartmentIds(v)
    BY FilledFrom
  <2> QED BY <1>3, <2>2, <2>3
<1>4. CASE /\ v.roles \cap InstRole = {"CAMPUS_HEAD"} /\ "SUPER_ADMIN" \notin v.roles
           /\ q.faculty = Null
  <2>1. "CAMPUS_HEAD" \in v.roles /\ "DEAN" \notin v.roles
    BY <1>4 DEF InstRole
  <2>2. row \in IF q.department # Null
                THEN {r \in {q} : q.department \in ResolveDepartmentIds(v)}
                ELSE {[q EXCEPT !.campus = c] :
                        c \in Filled(q.campus, ResolveCampusIds(v))}
    BY <1>4, <2>1 DEF Creatable
  <2>3. CASE q.department # Null
    BY <1>4, <2>1, <2>2, <2>3
  <2>4. CASE q.department = Null
    <3>1. PICK c \in Filled(q.campus, ResolveCampusIds(v)) : row = [q EXCEPT !.campus = c]
      BY <2>2, <2>4
    <3>2. c \in ResolveCampusIds(v)
      BY FilledFrom
    <3> QED BY <1>4, <2>1, <2>4, <3>1, <3>2
  <2> QED BY <2>3, <2>4
<1>5. CASE ~\/ "SUPER_ADMIN" \in v.roles
            \/ Scoped(v) /\ q.faculty # Null
            \/ "DEAN" \in v.roles /\ q.faculty = Null
            \/ v.roles \cap InstRole = {"CAMPUS_HEAD"} /\ q.faculty = Null
  BY <1>5 DEF Creatable
<1> QED BY <1>1, <1>2, <1>3, <1>4, <1>5

\* Every row there can be has a faculty member alone, or a department or campus.
LEMMA RowShape ==
  ASSUME NEW row \in Rows
  PROVE  /\ row.faculty # Null => row = [NoScope EXCEPT !.faculty = row.faculty]
         /\ row.faculty = Null => row.department # Null \/ row.campus # Null
<1>1. PICK v \in Viewers, q \in Asked : row \in Creatable(v, q)
  BY DEF Rows, CreatableRows
<1>2. CASE row = q /\ q # NoScope
  BY <1>2, AskedRow
<1>3. ASSUME NEW d \in ResolveDepartmentIds(v), q.faculty = Null,
             row = [q EXCEPT !.department = d]
      PROVE  row.faculty = Null /\ row.department # Null
  <2>1. q \in Row /\ d # Null
    BY AskedRow, ScopesOfViewers
  <2> QED BY <1>3, <2>1 DEF Row
<1>4. ASSUME NEW c \in ResolveCampusIds(v), q.faculty = Null, row = [q EXCEPT !.campus = c]
      PROVE  row.faculty = Null /\ row.campus # Null
  <2>1. q \in Row /\ c # Null
    BY AskedRow, ScopesOfViewers
  <2> QED BY <1>4, <2>1 DEF Row
<1>5. q.faculty # Null \/ q.department # Null => q # NoScope
  BY AskedRow
<1> QED BY <1>1, <1>2, <1>3, <1>4, <1>5, CreatableRow

\* assertCanAccessPipeline lets in whom assertCanCreatePipeline let in.
LEMMA CreatorReads == CreatorCanRead
<1> SUFFICES ASSUME NEW v \in Viewers, NEW row \in CreatableRows(v)
             PROVE  CanAccess(v, row)
  BY DEF CreatorCanRead
<1>1. PICK q \in Asked : row \in Creatable(v, q)
  BY DEF CreatableRows
<1>2. q \in Row
  BY AskedRow
<1>3. CASE "SUPER_ADMIN" \in v.roles
  BY <1>3 DEF CanAccess
<1>4. CASE /\ "SUPER_ADMIN" \notin v.roles /\ Scoped(v) /\ q.faculty # Null /\ row = q
           /\ FacultyInUserScope(v, q.faculty)
  <2>1. v.roles \cap InstRole # {}
    BY <1>4 DEF Scoped
  <2>2. row = [NoScope EXCEPT !.faculty = row.faculty]
    BY <1>4, AskedRow
  <2> QED BY <1>4, <2>1, <2>2 DEF CanAccess
<1>5. ASSUME "DEAN" \in v.roles, NEW d \in ResolveDepartmentIds(v),
             row = [q EXCEPT !.department = d]
      PROVE  CanAccess(v, row)
  <2>1. row.department = d
    BY <1>2, <1>5 DEF Row
  <2> QED BY <1>5, <2>1 DEF CanAccess
<1>6. CASE /\ "CAMPUS_HEAD" \in v.roles /\ q.department # Null /\ row = q
           /\ q.department \in ResolveDepartmentIds(v)
  <2>1. row.campus = Null
    BY <1>6, AskedRow
  <2> QED BY <1>6, <2>1 DEF CanAccess
<1>7. ASSUME "CAMPUS_HEAD" \in v.roles, q.department = Null,
             NEW c \in ResolveCampusIds(v), row = [q EXCEPT !.campus = c]
      PROVE  CanAccess(v, row)
  <2>1. row.campus = c /\ row.department = Null /\ c # Null
    BY <1>2, <1>7, ScopesOfViewers DEF Row
  <2> QED BY <1>7, <2>1 DEF CanAccess
<1> QED BY <1>1, <1>3, <1>4, <1>5, <1>6, <1>7, CreatableRow

\* fillAndAssertListScope shows only what assertCanAccessPipeline lets open.
LEMMA ListedReads == ListedIsReadable
<1> SUFFICES ASSUME NEW v \in Viewers, NEW q \in Asked, NEW row \in Rows,
                    Shown(v, q, row), "CHAIRPERSON" \in v.roles => q.department = Null
             PROVE  CanAccess(v, row)
  BY DEF ListedIsReadable
<1>1. q \in Row
  BY AskedRow
<1>0. PICK l : l = Listing(v, q)
  OBVIOUS
<1>2. row.faculty \in l.faculty /\ row.department \in l.department /\ row.campus \in l.campus
  BY <1>0 DEF Shown
<1>3. ASSUME NEW departments, NEW campuses, l = Columns(q, departments, campuses)
      PROVE  /\ q.faculty # Null => row.faculty = q.faculty
             /\ q.faculty = Null =>
                  /\ row.faculty = Null
                  /\ IF q.department # Null THEN row.department = q.department
                                            ELSE row.department \in departments
                  /\ IF q.campus # Null THEN row.campus = q.campus
                                        ELSE row.campus \in campuses
  BY <1>2, <1>3 DEF Columns
<1>4. l # Nothing
  BY <1>2 DEF Nothing
<1>5. CASE "SUPER_ADMIN" \in v.roles
  BY <1>5 DEF CanAccess
<1>6. CASE "SUPER_ADMIN" \notin v.roles /\ Scoped(v) /\ q.faculty # Null
  <2>1. l = IF FacultyInUserScope(v, q.faculty)
            THEN Columns(q, {Null}, {Null}) ELSE Nothing
    BY <1>0, <1>6 DEF Listing
  <2>2. FacultyInUserScope(v, q.faculty) /\ l = Columns(q, {Null}, {Null})
    BY <1>4, <2>1
  <2>3. row.faculty = q.faculty
    BY <1>3, <1>6, <2>2
  <2>4. row = [NoScope EXCEPT !.faculty = row.faculty]
    BY <1>6, <2>3, RowShape
  <2>5. v.roles \cap InstRole # {}
    BY <1>6 DEF Scoped
  <2> QED BY <1>6, <2>2, <2>3, <2>4, <2>5 DEF CanAccess
<1>7. CASE "SUPER_ADMIN" \notin v.roles /\ "DEAN" \in v.roles /\ q.faculty = Null
  <2>1. l = IF q.department \in ResolveDepartmentIds(v) \cup {Null}
            THEN Columns(q, ResolveDepartmentIds(v), {Null}) ELSE Nothing
    BY <1>0, <1>7 DEF Listing, Scoped, InstRole
  <2>2. /\ q.department \in ResolveDepartmentIds(v) \cup {Null}
        /\ l = Columns(q, ResolveDepartmentIds(v), {Null})
    BY <1>4, <2>1
  <2>3. row.department \in ResolveDepartmentIds(v)
    BY <1>3, <1>7, <2>2
  <2> QED BY <1>7, <2>3 DEF CanAccess
<1>8. CASE /\ v.roles \cap {"SUPER_ADMIN", "DEAN"} = {} /\ "CHAIRPERSON" \in v.roles
           /\ q.faculty = Null
  <2>1. l = Columns(q, {}, {Null})
    BY <1>0, <1>8 DEF Listing, Scoped, InstRole
  <2> QED BY <1>3, <1>8, <2>1
<1>9. CASE /\ v.roles \cap InstRole = {"CAMPUS_HEAD"} /\ "SUPER_ADMIN" \notin v.roles
           /\ q.faculty = Null
  <2>1. /\ "CAMPUS_HEAD" \in v.roles
        /\ v.roles \cap {"SUPER_ADMIN", "DEAN", "CHAIRPERSON"} = {}
    BY <1>9 DEF InstRole
  <2>2. l = IF q.campus \in ResolveCampusIds(v) \cup {Null}
            THEN Columns(q, {Null}, ResolveCampusIds(v)) ELSE Nothing
    BY <1>0, <1>9, <2>1 DEF Listing, Scoped, InstRole
  <2>3. /\ q.campus \in ResolveCampusIds(v) \cup {Null}
        /\ l = Columns(q, {Null}, ResolveCampusIds(v))
    BY <1>4, <2>2
  <2>4. /\ row.campus \in ResolveCampusIds(v)
        /\ row.department = q.department
    BY <1>3, <1>9, <2>3
  <2>5. ResolveDepartmentIds(v) = Department
    BY <2>1, <2>4, ScopesOfViewers DEF CampusHeadDepartments, CampusHeadCampuses
  <2>6. row.department \in ResolveDepartmentIds(v) \cup {Null}
    BY <1>1, <2>4, <2>5 DEF Row
  <2>7. row.campus # Null
    BY <2>4, ScopesOfViewers
  <2> QED BY <2>1, <2>4, <2>6, <2>7 DEF CanAccess
<1>10. CASE ~Scoped(v) /\ "FACULTY" \in v.roles
  <2> PICK mine : mine = [q EXCEPT !.faculty = v.id]
    OBVIOUS
  <2>1. l = Columns(mine, {Null}, {Null})
    BY <1>0, <1>10 DEF Listing, Scoped, InstRole
  <2>2. mine.faculty = v.id /\ v.id # Null
    BY <1>1 DEF Row, Viewers, Viewer
  <2>3. row.faculty = v.id
    BY <1>2, <2>1, <2>2 DEF Columns
  <2> QED BY <1>10, <2>3 DEF CanAccess
<1>11. CASE ~\/ "SUPER_ADMIN" \in v.roles
             \/ Scoped(v) /\ q.faculty # Null
             \/ "DEAN" \in v.roles /\ q.faculty = Null
             \/ "CHAIRPERSON" \in v.roles /\ q.faculty = Null
             \/ v.roles \cap InstRole = {"CAMPUS_HEAD"} /\ q.faculty = Null
             \/ ~Scoped(v) /\ "FACULTY" \in v.roles
  BY <1>0, <1>4, <1>11 DEF Listing
<1> QED BY <1>5, <1>6, <1>7, <1>8, <1>9, <1>10, <1>11

\* Whoever creates a pipeline may read it, and nobody is shown one that is then
\* refused: the three rules of PipelineOrchestratorService agree.
THEOREM RulesAgreeCorrect == RolesSpec => []PipelineRulesAgree
<1>1. PipelineRulesAgree
  BY CreatorReads, ListedReads DEF PipelineRulesAgree
<1> QED BY <1>1, PTL

-----------------------------------------------------------------------------
(* Faculty, curriculum, reports and analytics.                             *)

LEMMA FacultyOpens == ListedFacultyOpens
<1> SUFFICES ASSUME NEW v \in Viewers, NEW d \in Department \cup {Null},
                    NEW p \in Program \cup {Null}, NEW f \in ListedFaculty(v, d, p)
             PROVE  Scoped(v) /\ InSemesterScope(f, ResolveDepartmentIds(v))
  BY DEF ListedFacultyOpens, FacultyAccess, ReportAccess, AnalyticsAccess
<1>1. PICK x \in Teaching(f) :
        Narrowed(v, d, p) /\ DeptOf[x] \in DepartmentsOf(v, d)
  BY DEF ListedFaculty
<1>2. Scoped(v) /\ d \in ResolveDepartmentIds(v) \cup {Null}
  BY <1>1 DEF Narrowed
<1>3. DeptOf[x] \in ResolveDepartmentIds(v)
  BY <1>1, <1>2 DEF DepartmentsOf
<1>4. DeptOf[x] \in TeachingDepartments(f)
  BY DEF TeachingDepartments
<1> QED BY <1>2, <1>3, <1>4 DEF InSemesterScope

LEMMA DrillsDown == DrillDown
<1> SUFFICES ASSUME NEW v \in Viewers, NEW d \in Department \cup {Null},
                    NEW p \in ListedPrograms(v, d)
             PROVE  /\ DeptOf[p] \in ListedDepartments(v)
                    /\ p \in ListedCourses(v, d, p)
                    /\ \A f \in User : p \in Teaching(f) => f \in ListedFaculty(v, d, p)
  BY DEF DrillDown
<1>1. p \in Program /\ Narrowed(v, d, Null) /\ DeptOf[p] \in DepartmentsOf(v, d)
  BY DEF ListedPrograms
<1>2. p # Null
  BY <1>1 DEF Category
<1>3. Scoped(v) /\ d \in ResolveDepartmentIds(v) \cup {Null}
  BY <1>1 DEF Narrowed
<1>4. /\ DeptOf[p] \in Department \cap ResolveDepartmentIds(v)
      /\ d # Null => d = DeptOf[p]
  BY <1>1, <1>3 DEF DepartmentsOf
<1>5. Narrowed(v, d, p)
  BY <1>3, <1>4 DEF Narrowed
<1> QED BY <1>1, <1>2, <1>3, <1>4, <1>5 DEF ListedDepartments, ListedCourses, ListedFaculty

\* From the departments to the programs, courses and teachers, and to a
\* teacher's enrolments, report and analytics, no link that is offered is
\* refused: the scope rules of the four services agree.
THEOREM LinksOpenCorrect == RolesSpec => []EveryLinkOpens
<1>1. EveryLinkOpens
  BY FacultyOpens, DrillsDown DEF EveryLinkOpens
<1> QED BY <1>1, PTL

=============================================================================
