-------------------------- MODULE EdgeSourcesProofs --------------------------
(* Proofs about EdgeSources and about WikilinkSync, which extends it, for  *)
(* every set of targets, sources and callers.                              *)
EXTENDS WikilinkSync, TLAPS

------------------------------------------------------------------------------
(* Types.                                                                  *)

\* No call is in progress at first.
LEMMA NoCallType == NoCall \in Call /\ \A at \in {"done", "failed"} : [NoCall EXCEPT !.at = at] \in Call
  BY EdgeSourcesAssumption DEF NoCall, Call, AllOps

\* Only calls of Ops are ever made.
CallsMade == \A c \in Callers : calls[c].at \in {"done", "failed"} \/ calls[c].op \in Ops

TypeInv == EdgesTypeOK /\ CallsMade

\* A call that ends, moves on, or takes a set to write back stays a call.
LEMMA CallsType ==
    ASSUME EdgesTypeOK, NEW c \in Callers
    PROVE  /\ \A at \in {"done", "failed"} : Return(c, at) =>
                /\ calls' \in [Callers -> Call] /\ (CallsMade => CallsMade')
                /\ \A d \in Callers : calls'[d].at = "update" => calls'[d].set # {}
           /\ \A at \in {"read", "delete"} : ~Returned(c) /\ Move(c, at) =>
                /\ calls' \in [Callers -> Call] /\ (CallsMade => CallsMade')
                /\ \A d \in Callers : calls'[d].at = "update" => calls'[d].set # {}
           /\ \A set \in SUBSET Sources : set # {} /\ ~Returned(c) /\ Hold(c, "update", set) =>
                /\ calls' \in [Callers -> Call] /\ (CallsMade => CallsMade')
                /\ \A d \in Callers : calls'[d].at = "update" => calls'[d].set # {}
<1> USE DEF EdgesTypeOK, CallsMade
<1>1. ASSUME NEW at \in {"done", "failed"}, Return(c, at)
      PROVE  /\ calls' \in [Callers -> Call] /\ (CallsMade => CallsMade')
             /\ \A d \in Callers : calls'[d].at = "update" => calls'[d].set # {}
  <2>1. [NoCall EXCEPT !.at = at] \in Call /\ [NoCall EXCEPT !.at = at].at = at
    BY NoCallType DEF NoCall
  <2> QED
    BY <1>1, <2>1 DEF Return
<1>2. ASSUME NEW at \in {"read", "delete"}, ~Returned(c), Move(c, at)
      PROVE  /\ calls' \in [Callers -> Call] /\ (CallsMade => CallsMade')
             /\ \A d \in Callers : calls'[d].at = "update" => calls'[d].set # {}
  BY <1>2 DEF Move, Call, Returned
<1>3. ASSUME NEW set \in SUBSET Sources, set # {}, ~Returned(c), Hold(c, "update", set)
      PROVE  /\ calls' \in [Callers -> Call] /\ (CallsMade => CallsMade')
             /\ \A d \in Callers : calls'[d].at = "update" => calls'[d].set # {}
  BY <1>3 DEF Hold, Call, Returned
<1> QED
  BY <1>1, <1>2, <1>3

\* The rows keep their type.
LEMMA EdgeType ==
    ASSUME EdgesTypeOK, NEW t \in Targets
    PROVE  /\ \A set \in SUBSET Sources : Store(t, set) =>
                linked' \subseteq Targets /\ sources' \in [Targets -> SUBSET Sources]
           /\ Drop(t) => linked' \subseteq Targets /\ sources' \in [Targets -> SUBSET Sources]
           /\ UnchangedEdges => linked' \subseteq Targets /\ sources' \in [Targets -> SUBSET Sources]
  BY DEF EdgesTypeOK, Store, Drop, UnchangedEdges

LEMMA AdvanceType ==
    ASSUME EdgesTypeOK, NEW c \in Callers, Advance(c)
    PROVE  EdgesTypeOK' /\ (CallsMade => CallsMade')
<1> DEFINE k == calls[c]
           Rows == linked' \subseteq Targets /\ sources' \in [Targets -> SUBSET Sources]
           Typed == /\ calls' \in [Callers -> Call] /\ (CallsMade => CallsMade')
                    /\ \A d \in Callers : calls'[d].at = "update" => calls'[d].set # {}
<1>0. /\ k.to \in Targets /\ k.source \in Sources /\ k.set \in SUBSET Sources
      /\ sources[k.to] \in SUBSET Sources /\ "manual" \in Sources
  BY EdgeSourcesAssumption DEF EdgesTypeOK, Call
<1> SUFFICES Rows /\ Typed
  BY DEF EdgesTypeOK
<1> USE <1>0, CallsType, EdgeType DEF At, Returned
<1>1. CASE InsertSource(c)
  BY <1>1 DEF InsertSource
<1>2. CASE ReadToAdd(c)
  <2>1. Merged(sources[k.to], k.source) \in SUBSET Sources /\ Merged(sources[k.to], k.source) # {}
    BY DEF Merged
  <2> QED
    BY <1>2, <2>1 DEF ReadToAdd
<1>3. CASE ReadToRemove(c)
  BY <1>3 DEF ReadToRemove, RemovesEdge
<1>4. CASE UpdateSources(c)
  BY <1>4 DEF UpdateSources
<1>5. CASE DeleteEdge(c)
  BY <1>5 DEF DeleteEdge
<1>6. CASE AddInMemory(c)
  <2>1. Merged(sources[k.to], k.source) \in SUBSET Sources
    BY DEF Merged
  <2> QED
    BY <1>6, <2>1 DEF AddInMemory
<1>7. CASE RemoveInMemory(c)
  BY <1>7 DEF RemoveInMemory
<1>8. CASE AddEdge(c)
  BY <1>8 DEF AddEdge
<1>9. CASE RemoveEdge(c)
  BY <1>9 DEF RemoveEdge
<1> QED
  BY <1>1, <1>2, <1>3, <1>4, <1>5, <1>6, <1>7, <1>8, <1>9 DEF Advance

LEMMA BeginType ==
    ASSUME TypeInv, NEW c \in Callers, NEW op \in Ops, NEW t \in Targets, NEW s \in Sources,
           Begin(c, op, t, s)
    PROVE  TypeInv'
  BY EdgeSourcesAssumption DEF TypeInv, EdgesTypeOK, CallsMade, Begin, Call

LEMMA TypeInvHolds == EdgesSpec => []TypeInv
<1>1. EdgesInit => TypeInv
  BY NoCallType DEF EdgesInit, TypeInv, EdgesTypeOK, CallsMade, NoCall
<1>2. TypeInv /\ [EdgesNext]_edgeVars => TypeInv'
  <2> SUFFICES ASSUME TypeInv, [EdgesNext]_edgeVars PROVE TypeInv'
    OBVIOUS
  <2>1. CASE EdgesNext
    BY <2>1, BeginType, AdvanceType DEF EdgesNext, TypeInv
  <2>2. CASE UNCHANGED edgeVars
    BY <2>2 DEF edgeVars, TypeInv, EdgesTypeOK, CallsMade
  <2> QED
    BY <2>1, <2>2
<1> QED
  BY <1>1, <1>2, PTL DEF EdgesSpec

\* Rows and calls keep their shape on both stores, and no update of any
\* interleaving writes an empty set back (EdgesTypeOK).
THEOREM TypeCorrect == EdgesSpec => []EdgesTypeOK
<1>1. TypeInv => EdgesTypeOK
  BY DEF TypeInv
<1> QED
  BY <1>1, TypeInvHolds, PTL

------------------------------------------------------------------------------
(* An edge without sources is only ever made by AddEdge in memory.         *)

NoBareLinks == Backend = "sqlite" \/ "link" \notin Ops

LinkInv == TypeInv /\ LinkedIffDeclared

\* What writes and removes a row keeps it declared.
LEMMA LinkKept ==
    ASSUME LinkInv, NEW t \in Targets
    PROVE  /\ \A set \in SUBSET Sources : set # {} /\ Store(t, set) => LinkedIffDeclared'
           /\ Drop(t) => LinkedIffDeclared'
           /\ UnchangedEdges => LinkedIffDeclared'
  BY DEF LinkInv, TypeInv, EdgesTypeOK, LinkedIffDeclared, Store, Drop, UnchangedEdges

LEMMA AdvanceLinked ==
    ASSUME NoBareLinks, LinkInv, NEW c \in Callers, Advance(c)
    PROVE  LinkedIffDeclared'
<1> DEFINE k == calls[c]
<1>0. /\ k.to \in Targets /\ k.source \in Sources /\ k.set \in SUBSET Sources
      /\ sources[k.to] \in SUBSET Sources /\ "manual" \in Sources
      /\ k.at = "update" => k.set # {}
  BY EdgeSourcesAssumption DEF LinkInv, TypeInv, EdgesTypeOK, Call
<1> USE <1>0, LinkKept DEF At
<1>1. CASE InsertSource(c)
  BY <1>1 DEF InsertSource
<1>2. CASE ReadToAdd(c)
  BY <1>2 DEF ReadToAdd
<1>3. CASE ReadToRemove(c)
  BY <1>3 DEF ReadToRemove
<1>4. CASE UpdateSources(c)
  BY <1>4 DEF UpdateSources
<1>5. CASE DeleteEdge(c)
  BY <1>5 DEF DeleteEdge
<1>6. CASE AddInMemory(c)
  <2>1. Merged(sources[k.to], k.source) \in SUBSET Sources /\ Merged(sources[k.to], k.source) # {}
    BY DEF Merged
  <2> QED
    BY <1>6, <2>1 DEF AddInMemory
<1>7. CASE RemoveInMemory(c)
  BY <1>7 DEF RemoveInMemory, RemovesEdge
<1>8. CASE AddEdge(c)
  <2>1. k.at = "start" /\ k.op = "link"
    BY <1>8 DEF AddEdge
  <2>2. Backend = "sqlite"
    BY <2>1 DEF LinkInv, TypeInv, CallsMade, NoBareLinks
  <2> QED
    BY <1>8, <2>2 DEF AddEdge
<1>9. CASE RemoveEdge(c)
  BY <1>9 DEF RemoveEdge
<1> QED
  BY <1>1, <1>2, <1>3, <1>4, <1>5, <1>6, <1>7, <1>8, <1>9 DEF Advance

LEMMA LinkInvStep ==
    ASSUME NoBareLinks, LinkInv, [EdgesNext]_edgeVars
    PROVE  LinkInv'
<1>1. TypeInv'
  <2>1. CASE EdgesNext
    BY <2>1, BeginType, AdvanceType DEF EdgesNext, LinkInv, TypeInv
  <2>2. CASE UNCHANGED edgeVars
    BY <2>2 DEF edgeVars, LinkInv, TypeInv, EdgesTypeOK, CallsMade
  <2> QED
    BY <2>1, <2>2
<1>2. LinkedIffDeclared'
  <2>1. ASSUME NEW c \in Callers, NEW op \in Ops, NEW t \in Targets, NEW s \in Sources,
               Begin(c, op, t, s)
        PROVE  LinkedIffDeclared'
    BY <2>1 DEF Begin, LinkInv, LinkedIffDeclared
  <2>2. CASE UNCHANGED edgeVars
    BY <2>2 DEF edgeVars, LinkInv, LinkedIffDeclared
  <2> QED
    BY <2>1, <2>2, AdvanceLinked DEF EdgesNext
<1> QED
  BY <1>1, <1>2 DEF LinkInv

LEMMA LinkInvHolds ==
    ASSUME NoBareLinks
    PROVE  EdgesSpec => []LinkInv
<1>1. EdgesInit => LinkInv
  BY NoCallType DEF EdgesInit, LinkInv, TypeInv, EdgesTypeOK, CallsMade, NoCall, LinkedIffDeclared
<1>2. LinkInv /\ [EdgesNext]_edgeVars => LinkInv'
  BY LinkInvStep
<1> QED
  BY <1>1, <1>2, PTL DEF EdgesSpec

\* On SQLite, whatever the number of concurrent callers and however their
\* statements interleave, an edge is stored exactly while some source declares
\* it; in memory too, unless AddEdge is called (LinkedIffDeclared).
THEOREM EdgesDeclared ==
    ASSUME NoBareLinks
    PROVE  EdgesSpec => []LinkedIffDeclared
<1>1. LinkInv => LinkedIffDeclared
  BY DEF LinkInv
<1> QED
  BY <1>1, LinkInvHolds, PTL

------------------------------------------------------------------------------
(* The calls implement SourceSets.  A call in progress is the one pending  *)
(* call of its caller; its last step is the instant it takes effect.       *)

Pending == [c \in Callers |->
              IF Returned(c) THEN {}
              ELSE {[op |-> calls[c].op, to |-> calls[c].to, source |-> calls[c].source]}]
Failed == {c \in Callers : calls[c].at = "failed"}

AbstractVars == <<sources, Pending, Failed>>

LEMMA NextDef ==
    Abstract!Next <=>
        \E c \in Callers : \/ Abstract!Fail(c)
                           \/ \E call \in Abstract!Calls : \/ Abstract!Invoke(c, call)
                                                           \/ Abstract!Perform(c, call)
  BY DEF Abstract!Next

\* A call that begins is invoked.
LEMMA BeginInvokes ==
    ASSUME TypeInv, NEW c \in Callers, NEW op \in Ops, NEW t \in Targets, NEW s \in Sources,
           Begin(c, op, t, s)
    PROVE  Abstract!Next
<1> DEFINE call == [op |-> op, to |-> t, source |-> s]
<1>1. call \in Abstract!Calls
  BY EdgeSourcesAssumption DEF Abstract!Calls, AllOps
<1>2. Abstract!Invoke(c, call)
  BY DEF Abstract!Invoke, Begin, Returned, TypeInv, EdgesTypeOK
<1> QED
  BY <1>1, <1>2, NextDef

\* What the call of c leaves of the sources its target had.
Outcome(c) ==
    LET S == sources[calls[c].to]
    IN  CASE calls[c].op = "add"    -> S \union {calls[c].source}
          [] calls[c].op = "remove" -> S \ {calls[c].source}
          [] calls[c].op = "link"   -> S \union {"manual"}
          [] calls[c].op = "unlink" -> {}

\* A call that returns having left just that is performed.
LEMMA ReturnPerforms ==
    ASSUME TypeInv, NEW c \in Callers, ~Returned(c), Return(c, "done"),
           sources' = [sources EXCEPT ![calls[c].to] = Outcome(c)]
    PROVE  Abstract!Next
<1>1. [op |-> calls[c].op, to |-> calls[c].to, source |-> calls[c].source] \in Abstract!Calls
  BY DEF Abstract!Calls, AllOps, TypeInv, EdgesTypeOK, Call
<1> PICK call \in Abstract!Calls :
           call = [op |-> calls[c].op, to |-> calls[c].to, source |-> calls[c].source]
  BY <1>1
<1>2. Abstract!After(call) = Outcome(c)
  BY DEF Abstract!After, Outcome
<1>3. /\ calls' = [calls EXCEPT ![c] = [NoCall EXCEPT !.at = "done"]]
      /\ calls'[c].at = "done"
      /\ \A d \in Callers : d # c => calls'[d] = calls[d]
  BY DEF Return, NoCall, TypeInv, EdgesTypeOK
<1>4. Pending' = [Pending EXCEPT ![c] = {}]
  BY <1>3 DEF Pending, Returned
<1>5. UNCHANGED Failed
  BY <1>3 DEF Failed, Returned
<1>6. call \in Pending[c]
  BY DEF Pending
<1>7. Abstract!Perform(c, call)
  BY <1>2, <1>4, <1>5, <1>6 DEF Abstract!Perform, Pending, Failed
<1> QED
  BY <1>7, NextDef

\* A statement that only reads, and goes on, is not seen.
LEMMA ReadSilent ==
    ASSUME TypeInv, NEW c \in Callers, ~Returned(c), UnchangedEdges,
           \/ \E at \in {"read", "delete"} : Move(c, at)
           \/ \E set \in SUBSET Sources : Hold(c, "update", set)
    PROVE  UNCHANGED AbstractVars
<1>1. /\ \A d \in Callers : d # c => calls'[d] = calls[d]
      /\ calls'[c].at \in {"read", "delete", "update"}
      /\ calls'[c].op = calls[c].op /\ calls'[c].to = calls[c].to
      /\ calls'[c].source = calls[c].source
  BY DEF Move, Hold, TypeInv, EdgesTypeOK, Call
<1>2. UNCHANGED Pending
  BY <1>1 DEF Pending, Returned
<1>3. UNCHANGED Failed
  BY <1>1 DEF Failed, Returned
<1> QED
  BY <1>2, <1>3 DEF AbstractVars, UnchangedEdges

LEMMA InitImplements == EdgesInit => Abstract!Init
  BY DEF EdgesInit, Abstract!Init, NoCall, Returned

\* MemoryStore: each call is one step under the mutex.
AtomicCalls == \A c \in Callers : calls[c].at \in {"start", "done", "failed"}

LEMMA MemoryAdvance ==
    ASSUME Backend = "memory", "link" \notin Ops, LinkInv, AtomicCalls,
           NEW c \in Callers, Advance(c)
    PROVE  Abstract!Next
<1> DEFINE k == calls[c]
<1>0. k.to \in Targets /\ k.source \in Sources /\ sources \in [Targets -> SUBSET Sources]
  BY DEF LinkInv, TypeInv, EdgesTypeOK, Call
<1>1. CASE AddInMemory(c)
  <2>1. ~Returned(c) /\ Return(c, "done")
    BY <1>1 DEF AddInMemory, At, Returned
  <2>2. sources' = [sources EXCEPT ![k.to] = Outcome(c)]
    BY <1>1, <1>0 DEF AddInMemory, At, Store, Merged, Outcome
  <2> QED
    BY <2>1, <2>2, ReturnPerforms DEF LinkInv
<1>2. CASE RemoveInMemory(c)
  <2>1. ~Returned(c) /\ Return(c, "done")
    BY <1>2 DEF RemoveInMemory, At, Returned
  <2>2. Outcome(c) = sources[k.to] \ {k.source}
    BY <1>2 DEF RemoveInMemory, At, Outcome
  <2>3. CASE k.to \notin linked
    <3>1. sources[k.to] = {}
      BY <1>0, <2>3 DEF LinkInv, LinkedIffDeclared
    <3>2. sources' = sources
      BY <1>2, <2>3 DEF RemoveInMemory, UnchangedEdges
    <3>3. sources' = [sources EXCEPT ![k.to] = Outcome(c)]
      BY <1>0, <2>2, <3>1, <3>2
    <3> QED
      BY <2>1, <3>3, ReturnPerforms DEF LinkInv
  <2>4. CASE k.to \in linked
    <3>1. sources' = [sources EXCEPT ![k.to] = Outcome(c)]
      BY <1>2, <2>2, <2>4, <1>0 DEF RemoveInMemory, RemovesEdge, Drop, Store
    <3> QED
      BY <2>1, <3>1, ReturnPerforms DEF LinkInv
  <2> QED
    BY <2>3, <2>4
<1>3. CASE RemoveEdge(c)
  <2>1. ~Returned(c) /\ Return(c, "done")
    BY <1>3 DEF RemoveEdge, At, Returned
  <2>2. sources' = [sources EXCEPT ![k.to] = Outcome(c)]
    BY <1>3, <1>0 DEF RemoveEdge, At, Drop, Outcome
  <2> QED
    BY <2>1, <2>2, ReturnPerforms DEF LinkInv
<1>4. ~AddEdge(c)
  BY DEF AddEdge, At, LinkInv, TypeInv, CallsMade
<1> QED
  BY <1>1, <1>2, <1>3, <1>4
  DEF Advance, InsertSource, ReadToAdd, ReadToRemove, UpdateSources, DeleteEdge, At, AtomicCalls

LEMMA AtomicStep ==
    ASSUME Backend = "memory", TypeInv, AtomicCalls, [EdgesNext]_edgeVars
    PROVE  AtomicCalls'
<1> USE DEF TypeInv, EdgesTypeOK, AtomicCalls
<1>1. ASSUME NEW c \in Callers, Return(c, "done") PROVE AtomicCalls'
  BY <1>1 DEF Return, NoCall
<1>2. ASSUME NEW c \in Callers, NEW op \in Ops, NEW t \in Targets, NEW s \in Sources,
             Begin(c, op, t, s)
      PROVE  AtomicCalls'
  BY <1>2 DEF Begin
<1>3. ASSUME NEW c \in Callers, Advance(c) PROVE AtomicCalls'
  BY <1>1, <1>3
  DEF Advance, InsertSource, ReadToAdd, ReadToRemove, UpdateSources, DeleteEdge, At,
      AddInMemory, RemoveInMemory, AddEdge, RemoveEdge
<1>4. CASE UNCHANGED edgeVars
  BY <1>4 DEF edgeVars
<1> QED
  BY <1>2, <1>3, <1>4 DEF EdgesNext

\* MemoryStore implements the contract for any number of concurrent callers of
\* AddEdgeSource, RemoveEdgeSource and RemoveEdge: each call that answers no
\* error takes effect at one instant, and an edge goes with its last source
\* (SourceSetsSpec).
THEOREM MemoryImplements ==
    ASSUME Backend = "memory", "link" \notin Ops
    PROVE  EdgesSpec => SourceSetsSpec
<1>1. EdgesInit => Abstract!Init /\ AtomicCalls
  BY InitImplements DEF EdgesInit, NoCall, AtomicCalls
<1>2. LinkInv /\ AtomicCalls /\ [EdgesNext]_edgeVars => AtomicCalls'
  BY AtomicStep DEF LinkInv
<1>3. LinkInv /\ AtomicCalls /\ [EdgesNext]_edgeVars => [Abstract!Next]_AbstractVars
  <2> SUFFICES ASSUME LinkInv, AtomicCalls, [EdgesNext]_edgeVars
               PROVE  Abstract!Next \/ UNCHANGED AbstractVars
    OBVIOUS
  <2>1. CASE EdgesNext
    BY <2>1, MemoryAdvance, BeginInvokes DEF EdgesNext, LinkInv
  <2>2. CASE UNCHANGED edgeVars
    BY <2>2 DEF edgeVars, AbstractVars, Pending, Failed, Returned
  <2> QED
    BY <2>1, <2>2
<1>4. EdgesSpec => []LinkInv
  BY LinkInvHolds DEF NoBareLinks
<1> QED
  BY <1>1, <1>2, <1>3, <1>4, PTL
  DEF EdgesSpec, SourceSetsSpec, Abstract!Spec, AbstractVars, Pending, Failed

------------------------------------------------------------------------------
(* SQLiteStore: a caller that nobody interrupts.  Between two of its       *)
(* statements what it read still holds, which is what concurrent callers   *)
(* cannot rely on.                                                         *)

Alone == \A c, d \in Callers : c = d

\* What the statements a call has behind it have established.
ReadHolds ==
    \A c \in Callers :
        LET k == calls[c]
        IN  /\ k.at = "read" => k.op = "add" /\ k.to \in linked
            /\ k.at = "update" => /\ k.to \in linked
                                  /\ k.op \in {"add", "remove"}
                                  /\ k.set = Outcome(c)
            /\ k.at = "delete" => k.op = "remove" /\ Outcome(c) = {}

\* Each statement reads without being seen, or completes the call.
LEMMA SQLiteAdvance ==
    ASSUME Backend = "sqlite", "link" \notin Ops, LinkInv, ReadHolds,
           NEW c \in Callers, Advance(c)
    PROVE  Abstract!Next \/ UNCHANGED AbstractVars
<1> DEFINE k == calls[c]
<1>0. /\ k.to \in Targets /\ k.source \in Sources
      /\ sources \in [Targets -> SUBSET Sources] /\ sources[k.to] \in SUBSET Sources
      /\ k.to \in linked <=> sources[k.to] # {}
      /\ TypeInv
  BY DEF LinkInv, LinkedIffDeclared, TypeInv, EdgesTypeOK, Call
<1>1. CASE InsertSource(c)
  <2>0. ~Returned(c) /\ Outcome(c) = sources[k.to] \union {k.source}
    BY <1>1 DEF InsertSource, At, Returned, Outcome
  <2>1. CASE k.to \in linked
    BY <1>1, <2>0, <2>1, <1>0, ReadSilent DEF InsertSource
  <2>2. CASE k.to \notin linked
    <3>1. Return(c, "done") /\ sources' = [sources EXCEPT ![k.to] = Outcome(c)]
      BY <1>1, <2>0, <2>2, <1>0 DEF InsertSource, Store
    <3> QED
      BY <2>0, <3>1, <1>0, ReturnPerforms
  <2> QED
    BY <2>1, <2>2
<1>2. CASE ReadToAdd(c)
  <2>0. /\ ~Returned(c) /\ Outcome(c) = Merged(sources[k.to], k.source)
        /\ Outcome(c) \in SUBSET Sources /\ k.to \in linked
    BY <1>2, <1>0 DEF ReadToAdd, At, Returned, Outcome, Merged, ReadHolds
  <2>1. CASE Outcome(c) = sources[k.to]
    <3>1. Return(c, "done") /\ sources' = [sources EXCEPT ![k.to] = Outcome(c)]
      BY <1>2, <2>0, <2>1, <1>0 DEF ReadToAdd, UnchangedEdges
    <3> QED
      BY <2>0, <3>1, <1>0, ReturnPerforms
  <2>2. CASE Outcome(c) # sources[k.to]
    <3>1. Hold(c, "update", Outcome(c)) /\ UnchangedEdges
      BY <1>2, <2>0, <2>2 DEF ReadToAdd
    <3> QED
      BY <2>0, <3>1, <1>0, ReadSilent
  <2> QED
    BY <2>1, <2>2
<1>3. CASE ReadToRemove(c)
  <2>0. /\ ~Returned(c) /\ Outcome(c) = sources[k.to] \ {k.source}
        /\ Outcome(c) \in SUBSET Sources /\ UnchangedEdges
    BY <1>3, <1>0 DEF ReadToRemove, At, Returned, Outcome
  <2>1. CASE Outcome(c) = sources[k.to]
    <3>1. Return(c, "done")
      BY <1>3, <2>0, <2>1, <1>0 DEF ReadToRemove, RemovesEdge
    <3>2. sources' = [sources EXCEPT ![k.to] = Outcome(c)]
      BY <2>0, <2>1, <1>0 DEF UnchangedEdges
    <3> QED
      BY <2>0, <3>1, <3>2, <1>0, ReturnPerforms
  <2>2. CASE Outcome(c) # sources[k.to]
    <3>1. k.to \in linked
      BY <2>0, <2>2, <1>0
    <3>2. Move(c, "delete") \/ Hold(c, "update", Outcome(c))
      BY <1>3, <2>0, <2>2, <3>1 DEF ReadToRemove
    <3> QED
      BY <2>0, <3>2, <1>0, ReadSilent
  <2> QED
    BY <2>1, <2>2
<1>4. CASE UpdateSources(c)
  <2>1. ~Returned(c) /\ Return(c, "done")
    BY <1>4 DEF UpdateSources, Returned
  <2>2. sources' = [sources EXCEPT ![k.to] = Outcome(c)]
    BY <1>4 DEF UpdateSources, ReadHolds, Store
  <2> QED
    BY <2>1, <2>2, <1>0, ReturnPerforms
<1>5. CASE DeleteEdge(c)
  <2>1. ~Returned(c) /\ Return(c, "done")
    BY <1>5 DEF DeleteEdge, Returned
  <2>2. sources' = [sources EXCEPT ![k.to] = Outcome(c)]
    BY <1>5 DEF DeleteEdge, ReadHolds, Drop
  <2> QED
    BY <2>1, <2>2, <1>0, ReturnPerforms
<1>6. CASE RemoveEdge(c)
  <2>1. ~Returned(c) /\ Return(c, "done")
    BY <1>6 DEF RemoveEdge, At, Returned
  <2>2. sources' = [sources EXCEPT ![k.to] = Outcome(c)]
    BY <1>6 DEF RemoveEdge, At, Drop, Outcome
  <2> QED
    BY <2>1, <2>2, <1>0, ReturnPerforms
<1>7. ~AddEdge(c)
  BY DEF AddEdge, At, LinkInv, TypeInv, CallsMade
<1> QED
  BY <1>1, <1>2, <1>3, <1>4, <1>5, <1>6, <1>7 DEF Advance, AddInMemory, RemoveInMemory

LEMMA ReadHoldsStep ==
    ASSUME Alone, Backend = "sqlite", LinkInv, ReadHolds, [EdgesNext]_edgeVars
    PROVE  ReadHolds'
<1>1. ASSUME NEW c \in Callers, NEW at \in {"done", "failed"}, Return(c, at)
      PROVE  ReadHolds'
  <2>1. calls'[c].at = at
    BY <1>1 DEF Return, NoCall, LinkInv, TypeInv, EdgesTypeOK
  <2> QED
    BY <1>1, <2>1 DEF Alone, ReadHolds
<1>2. ASSUME NEW c \in Callers, NEW op \in Ops, NEW t \in Targets, NEW s \in Sources,
             Begin(c, op, t, s)
      PROVE  ReadHolds'
  <2>1. calls'[c].at = "start"
    BY <1>2 DEF Begin, LinkInv, TypeInv, EdgesTypeOK
  <2> QED
    BY <2>1 DEF Alone, ReadHolds
<1>3. ASSUME NEW c \in Callers, Advance(c)
      PROVE  ReadHolds'
  <2> DEFINE k == calls[c]
  <2>0. /\ k.to \in Targets /\ k.source \in Sources
        /\ sources \in [Targets -> SUBSET Sources]
        /\ k.to \in linked <=> sources[k.to] # {}
        /\ calls \in [Callers -> Call]
    BY DEF LinkInv, LinkedIffDeclared, TypeInv, EdgesTypeOK, Call
  <2>1. CASE InsertSource(c) /\ k.to \in linked
    <3>1. /\ calls'[c].at = "read" /\ calls'[c].op = "add" /\ calls'[c].to = k.to
          /\ linked' = linked
      BY <2>0, <2>1 DEF InsertSource, At, Move, UnchangedEdges, Call
    <3> QED
      BY <2>1, <3>1 DEF Alone, ReadHolds
  <2>2. CASE ReadToAdd(c) /\ \E set : Hold(c, "update", set)
    <3>1. /\ k.op = "add" /\ k.to \in linked
          /\ Hold(c, "update", Merged(sources[k.to], k.source)) /\ UnchangedEdges
      BY <2>0, <2>2 DEF ReadToAdd, At, Hold, Return, NoCall, ReadHolds
    <3>2. /\ calls'[c].at = "update" /\ calls'[c].op = k.op /\ calls'[c].to = k.to
          /\ calls'[c].source = k.source /\ calls'[c].set = sources[k.to] \union {k.source}
          /\ linked' = linked /\ sources' = sources
      BY <2>0, <3>1 DEF Hold, Merged, UnchangedEdges, Call
    <3>3. Outcome(c)' = calls'[c].set
      BY <3>1, <3>2 DEF Outcome
    <3> QED
      BY <3>1, <3>2, <3>3 DEF Alone, ReadHolds
  <2>3. CASE ReadToRemove(c) /\ (Move(c, "delete") \/ \E set : Hold(c, "update", set))
    <3>0. UnchangedEdges /\ k.op = "remove" /\ k.at = "start"
      BY <2>3 DEF ReadToRemove, At
    <3>1. \/ sources[k.to] \ {k.source} = {} /\ Move(c, "delete")
          \/ k.to \in linked /\ Hold(c, "update", sources[k.to] \ {k.source})
      BY <2>0, <2>3 DEF ReadToRemove, RemovesEdge, Move, Hold, Return, NoCall
    <3>2. /\ calls'[c].op = k.op /\ calls'[c].to = k.to /\ calls'[c].source = k.source
          /\ linked' = linked /\ sources' = sources
          /\ \/ sources[k.to] \ {k.source} = {} /\ calls'[c].at = "delete"
             \/ /\ k.to \in linked /\ calls'[c].at = "update"
                /\ calls'[c].set = sources[k.to] \ {k.source}
      BY <2>0, <3>0, <3>1 DEF Hold, Move, UnchangedEdges, Call
    <3>3. Outcome(c)' = sources[k.to] \ {k.source}
      BY <3>0, <3>2 DEF Outcome
    <3> QED
      BY <3>0, <3>2, <3>3 DEF Alone, ReadHolds
  <2> QED
    BY <1>1, <1>3, <2>1, <2>2, <2>3
    DEF Advance, InsertSource, ReadToAdd, ReadToRemove, UpdateSources, DeleteEdge,
        AddInMemory, RemoveInMemory, AddEdge, RemoveEdge
<1>4. CASE UNCHANGED edgeVars
  BY <1>4 DEF edgeVars, ReadHolds, Outcome
<1> QED
  BY <1>2, <1>3, <1>4 DEF EdgesNext

\* SQLiteStore implements the contract for one caller at a time: its calls of
\* several statements, without a transaction, are then as good as atomic
\* (SourceSetsSpec).  With two callers they are not: edges_race.cfg.
THEOREM SQLiteImplementsAlone ==
    ASSUME Alone, Backend = "sqlite", "link" \notin Ops
    PROVE  EdgesSpec => SourceSetsSpec
<1>1. EdgesInit => Abstract!Init /\ ReadHolds
  BY InitImplements DEF EdgesInit, NoCall, ReadHolds
<1>2. LinkInv /\ ReadHolds /\ [EdgesNext]_edgeVars => ReadHolds'
  BY ReadHoldsStep
<1>3. LinkInv /\ ReadHolds /\ [EdgesNext]_edgeVars => [Abstract!Next]_AbstractVars
  <2> SUFFICES ASSUME LinkInv, ReadHolds, [EdgesNext]_edgeVars
               PROVE  Abstract!Next \/ UNCHANGED AbstractVars
    OBVIOUS
  <2>1. CASE EdgesNext
    BY <2>1, SQLiteAdvance, BeginInvokes DEF EdgesNext, LinkInv
  <2>2. CASE UNCHANGED edgeVars
    BY <2>2 DEF edgeVars, AbstractVars, Pending, Failed, Returned
  <2> QED
    BY <2>1, <2>2
<1>4. EdgesSpec => []LinkInv
  BY LinkInvHolds DEF NoBareLinks
<1> QED
  BY <1>1, <1>2, <1>3, <1>4, PTL
  DEF EdgesSpec, SourceSetsSpec, Abstract!Spec, AbstractVars, Pending, Failed

------------------------------------------------------------------------------
(* Types, on both stores and for any editors.                              *)

LEMMA BeginCall ==
    ASSUME EdgesTypeOK, NEW c \in Callers, NEW op \in AllOps, NEW t \in Targets,
           NEW s \in Sources, Begin(c, op, t, s)
    PROVE  EdgesTypeOK'
  BY DEF EdgesTypeOK, Begin, Call

LEMMA TypeStep ==
    ASSUME TypeOK, [Next]_vars
    PROVE  TypeOK'
<1> USE DEF TypeOK
<1>0. "add" \in AllOps /\ "remove" \in AllOps /\ Ops \subseteq AllOps
      /\ Editors \subseteq Callers /\ "wikilink" \in Sources /\ "manual" \in Sources
  BY EdgeSourcesAssumption, WikilinkAssumption DEF AllOps
<1>1. ASSUME UNCHANGED edgeVars PROVE EdgesTypeOK'
  BY <1>1 DEF edgeVars, EdgesTypeOK
<1>2. ASSUME NEW e \in Editors, NEW T \in SUBSET Targets, AttachSection(e, T)
      PROVE  TypeOK'
  BY <1>1, <1>2 DEF AttachSection, Sync
<1>3. ASSUME NEW e \in Editors, ReadText(e)
      PROVE  TypeOK'
  BY <1>1, <1>3 DEF ReadText, Sync
<1>4. ASSUME NEW e \in Editors, ReadEdges(e)
      PROVE  TypeOK'
  <2>1. Existing \subseteq Targets
    BY DEF Existing, EdgesTypeOK
  <2> QED
    BY <1>1, <1>4, <2>1 DEF ReadEdges, Surplus, Sync
<1>5. ASSUME NEW e \in Editors, NEW t \in Targets, AddMissing(e, t)
      PROVE  TypeOK'
  <2>1. EdgesTypeOK'
    BY <1>0, <1>5, BeginCall DEF AddMissing
  <2> QED
    BY <1>5, <2>1 DEF AddMissing, Sync
<1>6. ASSUME NEW e \in Editors, NEW t \in Targets, RemoveSurplus(e, t)
      PROVE  TypeOK'
  <2>1. EdgesTypeOK'
    BY <1>0, <1>6, BeginCall DEF RemoveSurplus
  <2> QED
    BY <1>6, <2>1 DEF RemoveSurplus, Sync
<1>7. ASSUME NEW e \in Editors, SyncReturn(e)
      PROVE  TypeOK'
  BY <1>1, <1>7 DEF SyncReturn, Applied, Sync
<1>8. ASSUME NEW c \in Callers \ Editors, NEW op \in Ops, NEW t \in Targets, Linker(c, op, t)
      PROVE  TypeOK'
  <2>1. EdgesTypeOK'
    BY <1>0, <1>8, BeginCall DEF Linker
  <2> QED
    BY <1>8, <2>1 DEF Linker
<1>9. ASSUME NEW c \in Callers, CallStep(c)
      PROVE  TypeOK'
  <2>1. EdgesTypeOK' /\ calls[c].to \in Targets
    BY <1>9, AdvanceType DEF CallStep, EdgesTypeOK, Call
  <2>2. manual' \subseteq Targets
    BY <1>9, <2>1 DEF CallStep
  <2> QED
    BY <1>9, <2>1, <2>2 DEF CallStep
<1>10. CASE UNCHANGED vars
  BY <1>1, <1>10 DEF vars
<1> QED
  BY <1>2, <1>3, <1>4, <1>5, <1>6, <1>7, <1>8, <1>9, <1>10 DEF Next, Editing

LEMMA TypesHold == Spec => []TypeOK
<1>1. Init => TypeOK
  BY NoCallType DEF Init, EdgesInit, TypeOK, EdgesTypeOK, NoCall, Sync
<1> QED
  BY <1>1, TypeStep, PTL DEF Spec

------------------------------------------------------------------------------
(* One editor, and linkers that only link, on SQLite.  What the editor has *)
(* read of the edges still holds when it is used: a linker makes an edge   *)
(* where there is none, and no other edge, and an edge with a wikilink     *)
(* source is there.                                                        *)

OnlyLinked ==
    /\ Backend = "sqlite"
    /\ Ops \subseteq {"link"}
    /\ \E e \in Editors : Editors = {e}

LinkersInv == \A c \in Callers \ Editors : Returned(c) \/ At(c, "link", "start")

\* What the statements a call of the editor has behind it have established.
CallInv ==
    \A e \in Editors :
        LET k == calls[e]
        IN  /\ k.at # "failed"
            /\ sync[e].at # "apply" => k.at = "done"
            /\ k.at # "done" => /\ k.source = "wikilink"
                                /\ \/ k.op = "add" /\ k.to \in text
                                   \/ k.op = "remove" /\ k.to \notin text
            /\ k.at = "read" => k.op = "add" /\ k.to \in linked
            /\ k.at = "update" => /\ k.to \in linked
                                  /\ k.set \ {"wikilink"} = sources[k.to] \ {"wikilink"}
                                  /\ ("wikilink" \in k.set <=> k.op = "add")
            /\ k.at = "delete" => /\ k.op = "remove"
                                  /\ k.to \in linked
                                  /\ sources[k.to] \subseteq {"wikilink"}

\* The target of the call in progress.
Adding(e) == IF ~Returned(e) /\ calls[e].op = "add" THEN {calls[e].to} ELSE {}
Removing(e) == IF ~Returned(e) /\ calls[e].op = "remove" THEN {calls[e].to} ELSE {}

\* The edges differ from the text by what is still to be applied.
Outstanding(e) ==
    /\ sync[e].missing \subseteq text
    /\ sync[e].surplus \cap text = {}
    /\ text \subseteq Existing \union sync[e].missing \union Adding(e)
    /\ Existing \subseteq text \union sync[e].surplus \union Removing(e)

DiffInv ==
    \A e \in Editors :
        /\ sync[e].at = "idle" => Existing = text
        /\ sync[e].at = "edges" => sync[e].missing = text
        /\ sync[e].at = "apply" => Outstanding(e)

SyncInv == TypeOK /\ LinkersInv /\ CallInv /\ DiffInv

\* A call that is another's stays as it is.
LEMMA OthersStay ==
    ASSUME EdgesTypeOK, NEW c \in Callers, Advance(c)
    PROVE  /\ \A d \in Callers : d # c => calls'[d] = calls[d]
           /\ ~Returned(c)
  BY DEF Advance, InsertSource, ReadToAdd, ReadToRemove, UpdateSources, DeleteEdge, AddInMemory,
         RemoveInMemory, AddEdge, RemoveEdge, At, Move, Hold, Return, EdgesTypeOK, Returned

\* What returns has returned.
LEMMA ReturnedAt ==
    ASSUME EdgesTypeOK, NEW c \in Callers, NEW at \in {"done", "failed"}, Return(c, at)
    PROVE  calls'[c].at = at
  BY DEF Return, NoCall, EdgesTypeOK

\* A linker adds an edge where there was none, and returns.
LEMMA LinkerAdvance ==
    ASSUME OnlyLinked, SyncInv, NEW c \in Callers \ Editors, Advance(c)
    PROVE  /\ calls'[c].at = "done"
           /\ linked \subseteq linked' /\ linked' \subseteq Targets
           /\ \A t \in linked : sources'[t] = sources[t]
           /\ \A t \in linked' \ linked : sources'[t] = {"manual"}
<1> USE DEF SyncInv, TypeOK
<1>1. At(c, "link", "start") /\ calls[c].to \in Targets
  BY OthersStay DEF LinkersInv, EdgesTypeOK, Call
<1>2. AddEdge(c)
  BY <1>1 DEF Advance, InsertSource, ReadToAdd, ReadToRemove, UpdateSources, DeleteEdge,
              AddInMemory, RemoveInMemory, RemoveEdge, At
<1>3. Return(c, "done")
  BY <1>2 DEF AddEdge
<1>4. calls'[c].at = "done"
  BY <1>3, ReturnedAt
<1>5. \/ calls[c].to \notin linked /\ Store(calls[c].to, {"manual"})
      \/ UnchangedEdges
  BY <1>2 DEF AddEdge, OnlyLinked
<1> QED
  BY <1>1, <1>4, <1>5 DEF Store, UnchangedEdges, EdgesTypeOK

\* Such an edge is no wikilink.
LEMMA LinkerKeepsWikilinks ==
    ASSUME linked \subseteq linked',
           \A t \in linked : sources'[t] = sources[t],
           \A t \in linked' \ linked : sources'[t] = {"manual"}
    PROVE  Existing' = Existing
<1>1. \A t \in linked' \ linked : "wikilink" \notin sources'[t]
  OBVIOUS
<1> QED
  BY <1>1 DEF Existing

LEMMA LinkerStep ==
    ASSUME OnlyLinked, SyncInv, NEW c \in Callers \ Editors, CallStep(c)
    PROVE  LinkersInv' /\ CallInv' /\ DiffInv'
<1> USE DEF SyncInv, TypeOK
<1>1. Advance(c) /\ UNCHANGED <<text, sync>> /\ EdgesTypeOK
  BY DEF CallStep
<1>2. /\ calls'[c].at = "done" /\ linked \subseteq linked'
      /\ \A t \in linked : sources'[t] = sources[t]
      /\ Existing' = Existing
  BY <1>1, LinkerAdvance, LinkerKeepsWikilinks
<1>3. \A d \in Callers : d # c => calls'[d] = calls[d]
  BY <1>1, OthersStay
<1>4. Editors \subseteq Callers /\ \A e \in Editors : calls'[e] = calls[e]
  BY <1>3, WikilinkAssumption
<1>5. LinkersInv'
  BY <1>2, <1>3 DEF LinkersInv, Returned, At
<1>6. CallInv'
  BY <1>1, <1>2, <1>4 DEF CallInv
<1>7. DiffInv'
  BY <1>1, <1>2, <1>4 DEF DiffInv, Outstanding, Adding, Removing, Returned
<1> QED
  BY <1>5, <1>6, <1>7

\* A statement of the editor that does not end its call, with what it found.
Continues(e) ==
    LET k == calls[e]
    IN  /\ UnchangedEdges
        /\ calls'[e].at \in {"read", "update", "delete"}
        /\ calls'[e].op = k.op /\ calls'[e].to = k.to /\ calls'[e].source = k.source
        /\ calls'[e].at = "read" => k.op = "add" /\ k.to \in linked
        /\ calls'[e].at = "update" =>
               /\ k.to \in linked
               /\ calls'[e].set \ {"wikilink"} = sources[k.to] \ {"wikilink"}
               /\ ("wikilink" \in calls'[e].set <=> k.op = "add")
        /\ calls'[e].at = "delete" =>
               k.op = "remove" /\ k.to \in linked /\ sources[k.to] \subseteq {"wikilink"}

\* One that does: the edge of its target is a wikilink, or none.
Ends(e) ==
    LET k == calls[e]
    IN  /\ calls'[e].at = "done"
        /\ \/ k.op = "add" /\ Existing' = Existing \union {k.to}
           \/ k.op = "remove" /\ Existing' = Existing \ {k.to}

KeepsManual ==
    \A t \in linked : "manual" \in sources[t] => t \in linked' /\ "manual" \in sources'[t]

LEMMA EditorAdvance ==
    ASSUME OnlyLinked, SyncInv, NEW e \in Editors, Advance(e)
    PROVE  (Continues(e) \/ Ends(e)) /\ KeepsManual
<1> DEFINE k == calls[e]
<1>0. /\ e \in Callers /\ EdgesTypeOK
      /\ k \in Call /\ calls \in [Callers -> Call]
      /\ k.to \in Targets /\ sources \in [Targets -> SUBSET Sources] /\ linked \subseteq Targets
  BY WikilinkAssumption DEF SyncInv, TypeOK, EdgesTypeOK, Call
<1>1. ~Returned(e)
  BY <1>0, OthersStay
<1>2. /\ k.source = "wikilink"
      /\ k.op \in {"add", "remove"}
      /\ k.at = "read" => k.op = "add" /\ k.to \in linked
      /\ k.at = "update" => /\ k.to \in linked
                            /\ k.set \ {"wikilink"} = sources[k.to] \ {"wikilink"}
                            /\ ("wikilink" \in k.set <=> k.op = "add")
      /\ k.at = "delete" => k.op = "remove" /\ k.to \in linked /\ sources[k.to] \subseteq {"wikilink"}
  BY <1>1 DEF SyncInv, CallInv, Returned
<1>3. ASSUME UnchangedEdges PROVE KeepsManual /\ Existing' = Existing
  BY <1>3 DEF UnchangedEdges, KeepsManual, Existing
<1>4. ASSUME NEW set, Hold(e, "update", set)
      PROVE  /\ calls'[e].at = "update" /\ calls'[e].set = set
             /\ calls'[e].op = k.op /\ calls'[e].to = k.to /\ calls'[e].source = k.source
  BY <1>0, <1>4 DEF Hold, Call
<1>5. ASSUME NEW at, Move(e, at)
      PROVE  /\ calls'[e].at = at
             /\ calls'[e].op = k.op /\ calls'[e].to = k.to /\ calls'[e].source = k.source
  BY <1>0, <1>5 DEF Move, Call
<1>6. ASSUME Return(e, "done") PROVE calls'[e].at = "done"
  BY <1>0, <1>6, ReturnedAt
<1>7. CASE InsertSource(e)
  <2>0. k.op = "add"
    BY <1>7 DEF InsertSource, At
  <2>1. CASE k.to \in linked
    BY <1>7, <1>3, <1>5, <2>0, <2>1 DEF InsertSource, Continues
  <2>2. CASE k.to \notin linked
    <3>1. Return(e, "done") /\ Store(k.to, {"wikilink"})
      BY <1>7, <1>2, <2>2 DEF InsertSource
    <3>2. Existing' = Existing \union {k.to}
      BY <1>0, <2>2, <3>1 DEF Store, Existing
    <3>3. KeepsManual
      BY <1>0, <2>2, <3>1 DEF Store, KeepsManual
    <3> QED
      BY <1>6, <2>0, <3>1, <3>2, <3>3 DEF Ends
  <2> QED
    BY <2>1, <2>2
<1>8. CASE ReadToAdd(e)
  <2>0. k.op = "add" /\ k.to \in linked /\ UnchangedEdges
    BY <1>2, <1>8 DEF ReadToAdd, At
  <2> DEFINE merged == sources[k.to] \union {"wikilink"}
  <2>1. CASE merged = sources[k.to]
    <3>1. Return(e, "done")
      BY <1>2, <1>8, <2>0, <2>1 DEF ReadToAdd, Merged
    <3>2. k.to \in Existing
      BY <2>0, <2>1, <1>0 DEF Existing
    <3> QED
      BY <1>3, <1>6, <2>0, <3>1, <3>2 DEF Ends
  <2>2. CASE merged # sources[k.to]
    <3>1. Hold(e, "update", merged)
      BY <1>2, <1>8, <2>0, <2>2 DEF ReadToAdd, Merged
    <3>2. calls'[e].set = merged /\ calls'[e].at = "update"
          /\ calls'[e].op = k.op /\ calls'[e].to = k.to /\ calls'[e].source = k.source
      BY <1>4, <3>1
    <3> QED
      BY <1>3, <2>0, <3>2 DEF Continues
  <2> QED
    BY <2>1, <2>2
<1>9. CASE ReadToRemove(e)
  <2>0. k.op = "remove" /\ UnchangedEdges
    BY <1>9 DEF ReadToRemove, At
  <2> DEFINE remaining == sources[k.to] \ {"wikilink"}
  <2>1. CASE k.to \notin linked \/ (remaining = sources[k.to] /\ remaining # {})
    <3>1. Return(e, "done")
      BY <1>2, <1>9, <2>1 DEF ReadToRemove, RemovesEdge
    <3>2. k.to \notin Existing
      BY <2>1, <1>0 DEF Existing
    <3> QED
      BY <1>3, <1>6, <2>0, <3>1, <3>2 DEF Ends
  <2>2. CASE k.to \in linked /\ remaining = {}
    <3>1. Move(e, "delete")
      BY <1>2, <1>9, <2>2 DEF ReadToRemove, RemovesEdge
    <3>2. sources[k.to] \subseteq {"wikilink"}
      BY <2>2
    <3> QED
      BY <1>3, <1>5, <2>0, <2>2, <3>1, <3>2 DEF Continues
  <2>3. CASE k.to \in linked /\ remaining # {} /\ remaining # sources[k.to]
    <3>1. Hold(e, "update", remaining)
      BY <1>2, <1>9, <2>3 DEF ReadToRemove, RemovesEdge
    <3>2. calls'[e].set = remaining /\ calls'[e].at = "update"
          /\ calls'[e].op = k.op /\ calls'[e].to = k.to /\ calls'[e].source = k.source
      BY <1>4, <3>1
    <3> QED
      BY <1>3, <2>0, <2>3, <3>2 DEF Continues
  <2> QED
    BY <2>1, <2>2, <2>3
<1>10. CASE UpdateSources(e)
  <2>1. Return(e, "done") /\ k.at = "update"
    BY <1>10 DEF UpdateSources
  <2>2. Store(k.to, k.set) /\ k.to \in linked
    BY <1>2, <1>10, <2>1 DEF UpdateSources
  <2>3. KeepsManual
    <3>1. "manual" \in sources[k.to] => "manual" \in k.set
      BY <1>2, <2>1
    <3> QED
      BY <1>0, <2>2, <3>1 DEF Store, KeepsManual
  <2>4. CASE k.op = "add"
    <3>1. "wikilink" \in k.set
      BY <1>2, <2>1, <2>4
    <3>2. Existing' = Existing \union {k.to}
      BY <1>0, <2>2, <3>1 DEF Store, Existing
    <3> QED
      BY <1>6, <2>1, <2>3, <2>4, <3>2 DEF Ends
  <2>5. CASE k.op = "remove"
    <3>1. "wikilink" \notin k.set
      BY <1>2, <2>1, <2>5
    <3>2. Existing' = Existing \ {k.to}
      BY <1>0, <2>2, <3>1 DEF Store, Existing
    <3> QED
      BY <1>6, <2>1, <2>3, <2>5, <3>2 DEF Ends
  <2> QED
    BY <1>2, <2>4, <2>5
<1>11. CASE DeleteEdge(e)
  <2>1. Return(e, "done") /\ Drop(k.to) /\ k.op = "remove" /\ sources[k.to] \subseteq {"wikilink"}
    BY <1>2, <1>11 DEF DeleteEdge
  <2>2. Existing' = Existing \ {k.to}
    BY <1>0, <2>1 DEF Drop, Existing
  <2>3. KeepsManual
    <3>1. "manual" \notin sources[k.to]
      BY <2>1
    <3> QED
      BY <1>0, <2>1, <3>1 DEF Drop, KeepsManual
  <2> QED
    BY <1>6, <2>1, <2>2, <2>3 DEF Ends
<1> QED
  BY <1>2, <1>7, <1>8, <1>9, <1>10, <1>11
  DEF Advance, AddInMemory, RemoveInMemory, AddEdge, RemoveEdge, At, OnlyLinked

LEMMA EditorStep ==
    ASSUME OnlyLinked, SyncInv, NEW e \in Editors, CallStep(e)
    PROVE  LinkersInv' /\ CallInv' /\ DiffInv'
<1> DEFINE k == calls[e]
<1>0. Advance(e) /\ UNCHANGED <<text, sync>> /\ Editors = {e} /\ e \in Callers /\ EdgesTypeOK
  BY WikilinkAssumption DEF CallStep, OnlyLinked, SyncInv, TypeOK
<1>1. /\ \A d \in Callers : d # e => calls'[d] = calls[d]
      /\ ~Returned(e)
  BY <1>0, OthersStay
<1>2. LinkersInv'
  BY <1>0, <1>1 DEF LinkersInv, SyncInv, Returned, At
<1>3. sync[e].at = "apply" /\ Outstanding(e)
  BY <1>1 DEF SyncInv, CallInv, DiffInv, Returned
<1>4. /\ k.source = "wikilink"
      /\ \/ k.op = "add" /\ k.to \in text
         \/ k.op = "remove" /\ k.to \notin text
  BY <1>1 DEF SyncInv, CallInv, Returned
<1>5. CASE Continues(e)
  <2>1. linked' = linked /\ sources' = sources /\ Existing' = Existing
    BY <1>5 DEF Continues, UnchangedEdges, Existing
  <2>2. CallInv'
    BY <1>0, <1>3, <1>4, <1>5, <2>1 DEF CallInv, Continues
  <2>3. Outstanding(e)'
    BY <1>0, <1>1, <1>3, <1>5, <2>1 DEF Continues, Outstanding, Adding, Removing, Returned
  <2> QED
    BY <1>0, <1>2, <1>3, <2>2, <2>3 DEF DiffInv
<1>6. CASE Ends(e)
  <2>1. CallInv'
    BY <1>0, <1>3, <1>6 DEF CallInv, Ends
  <2>2. Adding(e)' = {} /\ Removing(e)' = {}
    BY <1>6 DEF Ends, Adding, Removing, Returned
  <2>3. Outstanding(e)'
    BY <1>0, <1>1, <1>3, <1>4, <1>6, <2>2 DEF Ends, Outstanding, Adding, Removing
  <2> QED
    BY <1>0, <1>2, <1>3, <2>1, <2>3 DEF DiffInv
<1> QED
  BY <1>0, <1>5, <1>6, EditorAdvance

\* The steps between calls, which touch no edge.
LEMMA EditingStep ==
    ASSUME OnlyLinked, SyncInv, NEW e \in Editors,
           Editing(e) \/ \E T \in SUBSET Targets : AttachSection(e, T)
    PROVE  LinkersInv' /\ CallInv' /\ DiffInv'
<1>0. Editors = {e} /\ e \in Callers /\ EdgesTypeOK /\ sync \in [Editors -> Sync]
      /\ calls \in [Callers -> Call]
  BY WikilinkAssumption DEF OnlyLinked, SyncInv, TypeOK, EdgesTypeOK
<1>1. ASSUME UNCHANGED edgeVars PROVE LinkersInv' /\ Existing' = Existing
  BY <1>1 DEF edgeVars, LinkersInv, SyncInv, Returned, At, Existing
<1>2. ASSUME NEW T \in SUBSET Targets, AttachSection(e, T)
      PROVE  LinkersInv' /\ CallInv' /\ DiffInv'
  <2>1. calls' = calls /\ sync'[e].at = "read" /\ calls[e].at = "done"
    BY <1>0, <1>2 DEF AttachSection, edgeVars, SyncInv, CallInv, Sync
  <2> QED
    BY <1>0, <1>1, <1>2, <2>1 DEF AttachSection, CallInv, DiffInv
<1>3. CASE ReadText(e)
  <2>1. /\ calls' = calls /\ text' = text /\ sync'[e].at = "edges" /\ sync'[e].missing = text
        /\ calls[e].at = "done"
    BY <1>0, <1>3 DEF ReadText, edgeVars, SyncInv, CallInv, Sync
  <2> QED
    BY <1>0, <1>1, <1>3, <2>1 DEF ReadText, CallInv, DiffInv
<1>4. CASE ReadEdges(e)
  <2>1. /\ calls' = calls /\ text' = text /\ calls[e].at = "done" /\ sync[e].missing = text
        /\ sync'[e].at = "apply" /\ sync'[e].missing = text \ Existing
        /\ sync'[e].surplus = Existing \ text
    BY <1>0, <1>4 DEF ReadEdges, edgeVars, SyncInv, CallInv, DiffInv, Sync, Surplus
  <2>2. LinkersInv' /\ Existing' = Existing
    BY <1>1, <1>4 DEF ReadEdges
  <2>3. CallInv'
    BY <1>0, <2>1 DEF CallInv
  <2>4. Outstanding(e)'
    BY <2>1, <2>2 DEF Outstanding
  <2> QED
    BY <1>0, <2>1, <2>2, <2>3, <2>4 DEF DiffInv
<1>5. CASE \E t \in Targets : AddMissing(e, t)
  <2>1. PICK t \in Targets : AddMissing(e, t)
    BY <1>5
  <2>2. /\ calls'[e].at = "start" /\ calls'[e].op = "add" /\ calls'[e].to = t
        /\ calls'[e].source = "wikilink" /\ \A d \in Callers : d # e => calls'[d] = calls[d]
        /\ linked' = linked /\ sources' = sources /\ text' = text /\ Returned(e)
    BY <1>0, <2>1 DEF AddMissing, Begin
  <2>3. /\ sync[e].at = "apply" /\ t \in sync[e].missing
        /\ sync'[e].at = "apply" /\ sync'[e].missing = sync[e].missing \ {t}
        /\ sync'[e].surplus = sync[e].surplus
    BY <1>0, <2>1 DEF AddMissing, Sync
  <2>4. Outstanding(e) /\ Adding(e) = {} /\ Removing(e) = {} /\ Existing' = Existing
    BY <2>2, <2>3 DEF SyncInv, DiffInv, Adding, Removing, Existing
  <2>5. Adding(e)' = {t} /\ Removing(e)' = {}
    BY <2>2 DEF Adding, Removing, Returned
  <2>6. Outstanding(e)'
    BY <2>2, <2>3, <2>4, <2>5 DEF Outstanding
  <2>7. t \in text
    BY <2>3, <2>4 DEF Outstanding
  <2>8. CallInv'
    BY <1>0, <2>2, <2>3, <2>7 DEF CallInv
  <2>9. LinkersInv'
    BY <1>0, <2>2 DEF SyncInv, LinkersInv, Returned, At
  <2> QED
    BY <1>0, <2>3, <2>6, <2>8, <2>9 DEF DiffInv
<1>6. CASE \E t \in Targets : RemoveSurplus(e, t)
  <2>1. PICK t \in Targets : RemoveSurplus(e, t)
    BY <1>6
  <2>2. /\ calls'[e].at = "start" /\ calls'[e].op = "remove" /\ calls'[e].to = t
        /\ calls'[e].source = "wikilink" /\ \A d \in Callers : d # e => calls'[d] = calls[d]
        /\ linked' = linked /\ sources' = sources /\ text' = text /\ Returned(e)
    BY <1>0, <2>1 DEF RemoveSurplus, Begin
  <2>3. /\ sync[e].at = "apply" /\ t \in sync[e].surplus
        /\ sync'[e].at = "apply" /\ sync'[e].surplus = sync[e].surplus \ {t}
        /\ sync'[e].missing = sync[e].missing
    BY <1>0, <2>1 DEF RemoveSurplus, Sync
  <2>4. Outstanding(e) /\ Adding(e) = {} /\ Removing(e) = {} /\ Existing' = Existing
    BY <2>2, <2>3 DEF SyncInv, DiffInv, Adding, Removing, Existing
  <2>5. Adding(e)' = {} /\ Removing(e)' = {t}
    BY <2>2 DEF Adding, Removing, Returned
  <2>6. Outstanding(e)'
    BY <2>2, <2>3, <2>4, <2>5 DEF Outstanding
  <2>7. t \notin text
    BY <2>3, <2>4 DEF Outstanding
  <2>8. CallInv'
    BY <1>0, <2>2, <2>3, <2>7 DEF CallInv
  <2>9. LinkersInv'
    BY <1>0, <2>2 DEF SyncInv, LinkersInv, Returned, At
  <2> QED
    BY <1>0, <2>3, <2>6, <2>8, <2>9 DEF DiffInv
<1>7. CASE SyncReturn(e)
  <2>1. /\ calls' = calls /\ text' = text /\ Returned(e) /\ sync[e].at = "apply"
        /\ sync[e].missing = {} /\ sync[e].surplus = {} /\ sync'[e].at = "idle"
    BY <1>0, <1>7 DEF SyncReturn, Applied, edgeVars, Sync
  <2>2. LinkersInv' /\ Existing' = Existing
    BY <1>1, <1>7 DEF SyncReturn
  <2>3. Adding(e) = {} /\ Removing(e) = {} /\ Outstanding(e)
    BY <2>1 DEF SyncInv, DiffInv, Adding, Removing
  <2>4. Existing = text
    BY <2>1, <2>3 DEF Outstanding
  <2>5. calls[e].at = "done"
    BY <2>1 DEF SyncInv, CallInv, Returned
  <2>6. CallInv'
    BY <1>0, <2>1, <2>5 DEF CallInv
  <2> QED
    BY <1>0, <2>1, <2>2, <2>4, <2>6 DEF DiffInv
<1> QED
  BY <1>2, <1>3, <1>4, <1>5, <1>6, <1>7 DEF Editing

LEMMA SyncStep ==
    ASSUME OnlyLinked, SyncInv, [Next]_vars
    PROVE  SyncInv'
<1>0. TypeOK'
  BY TypeStep DEF SyncInv
<1> SUFFICES LinkersInv' /\ CallInv' /\ DiffInv'
  BY <1>0 DEF SyncInv
<1>1. ASSUME NEW c \in Callers, CallStep(c)
      PROVE  LinkersInv' /\ CallInv' /\ DiffInv'
  BY <1>1, EditorStep, LinkerStep
<1>2. ASSUME NEW c \in Callers \ Editors, NEW op \in Ops, NEW t \in Targets, Linker(c, op, t)
      PROVE  LinkersInv' /\ CallInv' /\ DiffInv'
  <2>1. /\ calls'[c].at = "start" /\ calls'[c].op = "link"
        /\ \A d \in Callers : d # c => calls'[d] = calls[d]
        /\ linked' = linked /\ sources' = sources /\ text' = text /\ sync' = sync
    BY <1>2 DEF Linker, Begin, OnlyLinked, SyncInv, TypeOK, EdgesTypeOK
  <2>2. \A e \in Editors : calls'[e] = calls[e]
    BY <2>1, WikilinkAssumption
  <2> QED
    BY <2>1, <2>2 DEF SyncInv, LinkersInv, CallInv, DiffInv, Outstanding, Adding, Removing,
                      Returned, At, Existing
<1>3. CASE UNCHANGED vars
  <2>1. UNCHANGED <<linked, sources, calls, text, sync>>
    BY <1>3 DEF vars, edgeVars
  <2>2. \A e \in Editors : /\ UNCHANGED <<Existing, Adding(e), Removing(e)>>
                           /\ Outstanding(e) => Outstanding(e)'
    BY <2>1 DEF Existing, Adding, Removing, Returned, Outstanding
  <2>3. LinkersInv' /\ CallInv'
    BY <2>1 DEF SyncInv, LinkersInv, CallInv, Returned, At
  <2> QED
    BY <2>1, <2>2, <2>3 DEF SyncInv, DiffInv
<1>4. CASE Next
  <2>1. ASSUME NEW e \in Editors, Editing(e)
        PROVE  LinkersInv' /\ CallInv' /\ DiffInv'
    BY <2>1, EditingStep
  <2>2. ASSUME NEW e \in Editors, \E T \in SUBSET Targets : AttachSection(e, T)
        PROVE  LinkersInv' /\ CallInv' /\ DiffInv'
    BY <2>2, EditingStep
  <2>3. CASE \E e \in Editors : Editing(e) \/ \E T \in SUBSET Targets : AttachSection(e, T)
    BY <2>1, <2>2, <2>3
  <2>4. CASE \E c \in Callers \ Editors, op \in Ops, t \in Targets : Linker(c, op, t)
    BY <1>2, <2>4
  <2>5. CASE \E c \in Callers : CallStep(c)
    BY <1>1, <2>5
  <2> QED
    BY <1>4, <2>3, <2>4, <2>5 DEF Next
<1> QED
  BY <1>3, <1>4

LEMMA SyncInvHolds == ASSUME OnlyLinked PROVE Spec => []SyncInv
<1>1. Init => SyncInv
  <2> SUFFICES ASSUME Init PROVE SyncInv
    OBVIOUS
  <2>1. TypeOK
    BY NoCallType DEF Init, EdgesInit, TypeOK, EdgesTypeOK, NoCall, Sync
  <2>2. \A c \in Callers : calls[c].at = "done"
    BY DEF Init, EdgesInit, NoCall
  <2>3. \A e \in Editors : sync[e].at = "idle" /\ calls[e].at = "done"
    BY <2>2, WikilinkAssumption DEF Init
  <2>4. Existing = {} /\ text = {}
    BY DEF Existing, Init, EdgesInit
  <2> QED
    BY <2>1, <2>2, <2>3, <2>4 DEF SyncInv, LinkersInv, CallInv, DiffInv, Returned
<1> QED
  BY <1>1, SyncStep, PTL DEF Spec

\* For any targets and any number of linkers, whatever they link between any two
\* statements of it, a finished sync leaves just the wikilink edges of the text
\* (SyncWikilinks).  Two editors break it (wikilink_editors.cfg).
THEOREM TextFollowed == ASSUME OnlyLinked PROVE Spec => []WikilinksMatch
<1>1. OnlyLinked /\ SyncInv => WikilinksMatch
  BY DEF OnlyLinked, SyncInv, DiffInv, WikilinksMatch
<1> QED
  BY <1>1, SyncInvHolds, PTL

\* No statement of a sync takes a manual source away, or its edge, however long
\* ago it read the sources it writes back (RemoveEdgeSource).
THEOREM ManualSourcesKept == ASSUME OnlyLinked PROVE Spec => ManualKept
<1>1. OnlyLinked /\ SyncInv /\ [Next]_vars =>
        [\A t \in Targets : t \in linked /\ "manual" \in sources[t] =>
            \/ t \in linked' /\ "manual" \in sources'[t]
            \/ \E c \in Callers : At(c, "unlink", "start") /\ calls[c].to = t]_vars
  <2> SUFFICES ASSUME OnlyLinked, SyncInv, Next PROVE KeepsManual
    BY DEF KeepsManual
  <2>1. ASSUME NEW c \in Callers, CallStep(c)
        PROVE  KeepsManual
    <3>1. CASE c \in Editors
      BY <2>1, <3>1, EditorAdvance DEF CallStep
    <3>2. CASE c \notin Editors
      <4>1. /\ linked \subseteq linked'
            /\ \A t \in linked : sources'[t] = sources[t]
        BY <2>1, <3>2, LinkerAdvance DEF CallStep
      <4> QED
        BY <4>1 DEF KeepsManual
    <3> QED
      BY <3>1, <3>2
  <2>2. ASSUME UNCHANGED <<linked, sources>>
        PROVE  KeepsManual
    BY <2>2 DEF KeepsManual
  <2> QED
    BY <2>1, <2>2 DEF Next, Editing, AttachSection, ReadText, ReadEdges, AddMissing,
                      RemoveSurplus, SyncReturn, Linker, Begin, edgeVars
<1> QED
  BY <1>1, SyncInvHolds, PTL DEF Spec, ManualKept
==============================================================================
