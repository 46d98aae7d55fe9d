------------------------ MODULE PluginRegistryProofs -------------------------
(***************************************************************************)
(* What PluginRegistry keeps for any plugins, callers and depth of         *)
(* dispatch: types, that no registration is lost, and that the list does   *)
(* not change under a reader.                                              *)
(***************************************************************************)
EXTENDS PluginRegistry, SequenceTheorems, TLAPS

USE PluginRegistryAssumption

\* A dispatch that holds the read lock.
Reading(c) == \E i \in DOMAIN frames[c] : frames[c][i].at = "visit"

\* The writer is alone, meets no reader once it is in, and what it read is
\* still the list when it stores the longer one.
Exclusive ==
    /\ \A p, q \in Writer : p = q
    /\ \A p \in Extra : reg[p] \in {"read", "append"} => \A c \in Callers : ~Reading(c)
    /\ \A p \in Extra : reg[p] = "append" => copy[p] = plugins

LockInv == TypeOK /\ Exclusive /\ NoLostPlugin

------------------------------------------------------------------------------
(* Sequences of dispatches.                                                *)

\* Pushing a dispatch keeps a stack a stack.
LEMMA PushType ==
    ASSUME NEW s \in Seq(Frame), NEW f \in Frame
    PROVE  /\ Append(s, f) \in Seq(Frame)
           /\ Len(Append(s, f)) = Len(s) + 1
           /\ \A i \in 1 .. Len(s) : Append(s, f)[i] = s[i]
           /\ Append(s, f)[Len(s) + 1] = f
  OBVIOUS

\* So does changing the innermost dispatch.
LEMMA TopType ==
    ASSUME NEW s \in Seq(Frame), s # <<>>, NEW f \in Frame
    PROVE  /\ [s EXCEPT ![Len(s)] = f] \in Seq(Frame)
           /\ DOMAIN [s EXCEPT ![Len(s)] = f] = DOMAIN s
           /\ \A i \in DOMAIN s : [s EXCEPT ![Len(s)] = f][i] = IF i = Len(s) THEN f ELSE s[i]
  OBVIOUS

\* And returning from it.
LEMMA PopType ==
    ASSUME NEW s \in Seq(Frame), s # <<>>
    PROVE  /\ SubSeq(s, 1, Len(s) - 1) \in Seq(Frame)
           /\ Len(SubSeq(s, 1, Len(s) - 1)) = Len(s) - 1
           /\ \A i \in 1 .. Len(s) - 1 : SubSeq(s, 1, Len(s) - 1)[i] = s[i]
  <1>1. Len(s) \in Nat \ {0}
    OBVIOUS
  <1> DEFINE n == Len(s) - 1
  <1>2. 1 \in Int /\ n \in Int /\ n \in Nat
    BY <1>1
  <1>3. \A i \in 1 .. n : s[i] \in Frame
    BY <1>1
  <1> HIDE DEF n
  <1>4. /\ SubSeq(s, 1, n) \in Seq(Frame)
        /\ Len(SubSeq(s, 1, n)) = IF 1 <= n THEN n - 1 + 1 ELSE 0
        /\ \A i \in 1 .. n - 1 + 1 : SubSeq(s, 1, n)[i] = s[1 + i - 1]
    BY <1>2, <1>3, SubSeqProperties
  <1>5. /\ Len(SubSeq(s, 1, n)) = n
        /\ \A i \in 1 .. n : SubSeq(s, 1, n)[i] = s[i]
    BY <1>2, <1>4
  <1> QED
    BY <1>4, <1>5 DEF n

\* Going on to the next plugin.
LEMMA NextType ==
    ASSUME NEW f \in Frame
    PROVE  NextPlugin(f) \in Frame /\ NextPlugin(f).next = f.next + 1 /\ f.next \in Nat
  <1>1. f.next \in Nat \ {0}
    BY DEF Frame
  <1>2. f.next \in Nat /\ f.next + 1 \in Nat \ {0}
    BY <1>1
  <1>3. [f EXCEPT !.next = f.next + 1] \in Frame /\ [f EXCEPT !.next = f.next + 1].next = f.next + 1
    BY <1>2, Zenon DEF Frame
  <1>4. \A g \in Frame : [g EXCEPT !.called = FALSE] \in Frame /\ [g EXCEPT !.called = FALSE].next = g.next
    BY DEF Frame
  <1>5. NextPlugin(f) = [[f EXCEPT !.next = f.next + 1] EXCEPT !.called = FALSE]
    BY DEF NextPlugin
  <1> QED
    BY <1>2, <1>3, <1>4, <1>5, Zenon

\* The innermost dispatch is one.
LEMMA TopIn ==
    ASSUME TypeOK, NEW c \in Callers, NEW at, In(c, at)
    PROVE  /\ frames[c] \in Seq(Frame)
           /\ frames[c] # <<>>
           /\ Len(frames[c]) \in DOMAIN frames[c]
           /\ Top(c) \in Frame
           /\ Top(c).at = at
           /\ Top(c).next <= Len(plugins) + 1
  BY DEF TypeOK, In, Top

------------------------------------------------------------------------------
LEMMA InitLock == Init => LockInv
  <1> SUFFICES ASSUME Init PROVE LockInv
    OBVIOUS
  <1>1. plugins \in Seq(Extra \union {"builtin"})
    BY DEF Init
  <1>2. TypeOK
    BY <1>1 DEF Init, TypeOK
  <1>3. Exclusive /\ NoLostPlugin
    BY DEF Init, Exclusive, NoLostPlugin, Writer, Reading
  <1> QED
    BY <1>2, <1>3 DEF LockInv

\* A step of a registration that leaves the list alone.
LEMMA RegisteringKeeps ==
    ASSUME LockInv, NEW p \in Extra, Lock(p) \/ Enter(p) \/ ReadSlice(p)
    PROVE  LockInv' /\ plugins' = plugins
  <1> USE DEF LockInv
  <1>1. CASE Lock(p)
    <2>1. TypeOK'
      BY <1>1 DEF TypeOK, Lock
    <2>2. Exclusive'
      BY <1>1 DEF TypeOK, Exclusive, Lock, NoWriter, Writer, Reading
    <2> QED
      BY <1>1, <2>1, <2>2 DEF TypeOK, Lock, NoLostPlugin
  <1>2. CASE Enter(p)
    <2>1. TypeOK'
      BY <1>2 DEF TypeOK, Enter
    <2>2. \A c \in Callers : ~Reading(c)
      BY <1>2 DEF Enter, NoReaders, ReadersIn, Reading
    <2>3. Exclusive'
      BY <1>2, <2>2 DEF TypeOK, Exclusive, Enter, Writer, Reading
    <2> QED
      BY <1>2, <2>1, <2>3 DEF TypeOK, Enter, NoLostPlugin
  <1>3. CASE ReadSlice(p)
    <2>1. TypeOK'
      BY <1>3 DEF TypeOK, ReadSlice
    <2>2. Exclusive'
      BY <1>3 DEF TypeOK, Exclusive, ReadSlice, Writer, Reading
    <2> QED
      BY <1>3, <2>1, <2>2 DEF TypeOK, ReadSlice, NoLostPlugin
  <1> QED
    BY <1>1, <1>2, <1>3

\* The readers let in are dispatches as before.
LEMMA LetInType ==
    ASSUME NEW s \in Seq(Frame)
    PROVE  /\ LetIn(s) \in Seq(Frame)
           /\ DOMAIN LetIn(s) = DOMAIN s
           /\ \A i \in DOMAIN s : LetIn(s)[i].next = s[i].next
  <1>1. \A i \in DOMAIN s : s[i] \in Frame
    OBVIOUS
  <1>2. \A i \in DOMAIN s :
          /\ LetIn(s)[i] \in Frame
          /\ LetIn(s)[i].next = s[i].next
    BY <1>1 DEF LetIn, Frame
  <1>3. DOMAIN LetIn(s) = 1 .. Len(s)
    BY DEF LetIn
  <1>4. LetIn(s) \in [1 .. Len(s) -> Frame]
    BY <1>2, <1>3 DEF LetIn
  <1> QED
    BY <1>2, <1>3, <1>4

\* The writer appends to the list it read, which nobody reads or has changed.
LEMMA RegisterKeeps ==
    ASSUME LockInv, NEW p \in Extra, Register(p)
    PROVE  LockInv' /\ ReadersIn = {}
  <1> USE DEF LockInv
  <1>1. ReadersIn = {}
    BY DEF Exclusive, Register, Reading, ReadersIn
  <1>2. plugins' = Append(plugins, p) /\ plugins \in Seq(Extra \union {"builtin"})
    BY DEF Exclusive, Register, TypeOK
  <1>3. /\ plugins' \in Seq(Extra \union {"builtin"})
        /\ Len(plugins') = Len(plugins) + 1
        /\ \A i \in 1 .. Len(plugins) : plugins'[i] = plugins[i]
        /\ plugins'[Len(plugins) + 1] = p
    BY <1>2
  <1>4. /\ frames' \in [Callers -> Seq(Frame)]
        /\ \A c \in Callers : \A i \in DOMAIN frames'[c] : frames'[c][i].next <= Len(plugins') + 1
    <2> SUFFICES ASSUME NEW c \in Callers
                 PROVE  /\ frames'[c] \in Seq(Frame)
                        /\ \A i \in DOMAIN frames'[c] : frames'[c][i].next <= Len(plugins') + 1
      BY DEF Register
    <2>1. frames'[c] = LetIn(frames[c]) /\ frames[c] \in Seq(Frame)
      BY DEF Register, TypeOK
    <2>2. \A i \in DOMAIN frames[c] : frames[c][i].next \in Nat /\ frames[c][i].next <= Len(plugins) + 1
      <3>1. \A i \in DOMAIN frames[c] : frames[c][i] \in Frame
        BY <2>1
      <3> QED
        BY <3>1 DEF TypeOK, Frame
    <2> QED
      BY <1>2, <1>3, <2>1, <2>2, LetInType
  <1>5. TypeOK'
    BY <1>3, <1>4 DEF TypeOK, Register
  <1>6. \A q \in Extra \ {p} : reg'[q] = reg[q] /\ reg[q] \notin {"waiting", "read", "append"}
    BY DEF Exclusive, Register, Writer, TypeOK
  <1>7. reg'[p] = "done"
    BY DEF Register, TypeOK
  <1>8. Exclusive'
    BY <1>6, <1>7 DEF Exclusive, Writer
  <1>9. NoLostPlugin'
    <2> SUFFICES ASSUME NEW q \in Extra, reg'[q] = "done"
                 PROVE  \E i \in DOMAIN plugins' : plugins'[i] = q
      BY DEF NoLostPlugin
    <2>1. DOMAIN plugins' = 1 .. Len(plugins) + 1 /\ DOMAIN plugins = 1 .. Len(plugins)
      BY <1>2, <1>3
    <2>2. CASE q = p
      BY <1>2, <1>3, <2>1, <2>2
    <2>3. CASE q # p
      <3>1. PICK i \in DOMAIN plugins : plugins[i] = q
        BY <1>6, <2>3 DEF NoLostPlugin
      <3> QED
        BY <1>2, <1>3, <2>1, <3>1
    <2> QED
      BY <2>2, <2>3
  <1> QED
    BY <1>1, <1>5, <1>8, <1>9

\* A caller's step that begins to read only if nobody writes keeps the lock's
\* invariant, given that it keeps the stack well formed.
LEMMA StackStep ==
    ASSUME LockInv, NEW c \in Callers, NEW s \in Seq(Frame),
           frames' = [frames EXCEPT ![c] = s],
           \A i \in DOMAIN s : s[i].next <= Len(plugins) + 1,
           (\E i \in DOMAIN s : s[i].at = "visit") => Reading(c) \/ NoWriter,
           left' \in [Callers -> 0 .. MaxDispatches],
           UNCHANGED <<plugins, reg, copy>>
    PROVE  LockInv'
  <1> USE DEF LockInv
  <1>1. frames' \in [Callers -> Seq(Frame)] /\ frames'[c] = s
        /\ \A d \in Callers \ {c} : frames'[d] = frames[d]
    BY DEF TypeOK
  <1>2. \A d \in Callers : \A i \in DOMAIN frames'[d] : frames'[d][i].next <= Len(plugins') + 1
    <2> SUFFICES ASSUME NEW d \in Callers, NEW i \in DOMAIN frames'[d]
                 PROVE  frames'[d][i].next <= Len(plugins) + 1
      OBVIOUS
    <2>1. CASE d = c
      BY <1>1, <2>1
    <2>2. CASE d # c
      BY <1>1, <2>2 DEF TypeOK
    <2> QED
      BY <2>1, <2>2
  <1>3. TypeOK'
    BY <1>1, <1>2 DEF TypeOK
  <1>4. ASSUME NEW p \in Extra, reg'[p] \in {"read", "append"}, NEW d \in Callers
        PROVE  ~Reading(d)'
    <2>1. ~Reading(d) /\ ~Reading(c) /\ ~NoWriter
      BY <1>4 DEF Exclusive, NoWriter, Writer
    <2> QED
      BY <1>1, <2>1 DEF Reading
  <1>5. Exclusive'
    BY <1>4 DEF Exclusive, Writer
  <1> QED
    BY <1>3, <1>5 DEF NoLostPlugin

LEMMA DispatchingKeeps ==
    ASSUME LockInv, NEW c \in Callers, Dispatching(c)
    PROVE  LockInv' /\ plugins' = plugins
  <1>0. TypeOK
    BY DEF LockInv
  <1>1. CASE RLock(c)
    <2> DEFINE f == [Top(c) EXCEPT !.at = Arrive]
               s == [frames[c] EXCEPT ![Len(frames[c])] = f]
    <2>1. f \in Frame /\ f.next = Top(c).next /\ f.at = Arrive
      BY <1>0, <1>1, TopIn DEF RLock, Frame, Arrive
    <2>2. /\ frames[c] \in Seq(Frame) /\ frames[c] # <<>>
          /\ Top(c).next <= Len(plugins) + 1
      BY <1>0, <1>1, TopIn DEF RLock
    <2> HIDE DEF f
    <2>3. /\ s \in Seq(Frame)
          /\ DOMAIN s = DOMAIN frames[c]
          /\ \A i \in DOMAIN s : s[i] = IF i = Len(frames[c]) THEN f ELSE frames[c][i]
      BY <2>1, <2>2, TopType
    <2>4. frames' = [frames EXCEPT ![c] = s] /\ UNCHANGED <<plugins, reg, copy, left>>
      BY <1>0, <1>1 DEF RLock, SetTop, f, TypeOK
    <2> HIDE DEF s
    <2>5. \A i \in DOMAIN s : s[i].next <= Len(plugins) + 1
      BY <1>0, <2>1, <2>2, <2>3 DEF TypeOK
    <2>6. (\E i \in DOMAIN s : s[i].at = "visit") => Reading(c) \/ NoWriter
      BY <2>1, <2>3 DEF Reading, Arrive
    <2> QED
      BY <1>0, <2>3, <2>4, <2>5, <2>6, StackStep DEF TypeOK
  <1>2. CASE Visit(c)
    <2> DEFINE f == NextPlugin(Top(c))
               s == [frames[c] EXCEPT ![Len(frames[c])] = f]
    <2>1. /\ frames[c] \in Seq(Frame) /\ frames[c] # <<>>
          /\ Top(c) \in Frame
          /\ Top(c).next <= Len(plugins)
          /\ Reading(c)
      BY <1>0, <1>2, TopIn DEF Visit, Reading, In, Top
    <2>2. f \in Frame /\ f.next <= Len(plugins) + 1
      <3>1. Len(plugins) \in Nat
        BY <1>0 DEF TypeOK
      <3>2. f \in Frame /\ f.next = Top(c).next + 1 /\ Top(c).next \in Nat
        BY <2>1, NextType
      <3> QED
        BY <2>1, <3>1, <3>2
    <2> HIDE DEF f
    <2>3. /\ s \in Seq(Frame)
          /\ DOMAIN s = DOMAIN frames[c]
          /\ \A i \in DOMAIN s : s[i] = IF i = Len(frames[c]) THEN f ELSE frames[c][i]
      BY <2>1, <2>2, TopType
    <2>4. frames' = [frames EXCEPT ![c] = s] /\ UNCHANGED <<plugins, reg, copy, left>>
      BY <1>0, <1>2 DEF Visit, SetTop, f, TypeOK
    <2> HIDE DEF s
    <2>5. \A i \in DOMAIN s : s[i].next <= Len(plugins) + 1
      BY <1>0, <2>2, <2>3 DEF TypeOK
    <2> QED
      BY <1>0, <2>1, <2>3, <2>4, <2>5, StackStep DEF TypeOK
  <1>3. CASE RUnlock(c)
    <2> DEFINE s == SubSeq(frames[c], 1, Len(frames[c]) - 1)
    <2>1. frames[c] \in Seq(Frame) /\ frames[c] # <<>> /\ Reading(c)
      BY <1>0, <1>3, TopIn DEF RUnlock, Reading, In, Top
    <2>2. /\ s \in Seq(Frame) /\ Len(s) = Len(frames[c]) - 1
          /\ \A i \in 1 .. Len(frames[c]) - 1 : s[i] = frames[c][i]
      BY <2>1, PopType
    <2>3. frames' = [frames EXCEPT ![c] = s] /\ UNCHANGED <<plugins, reg, copy, left>>
      BY <1>0, <1>3 DEF RUnlock, TypeOK
    <2> HIDE DEF s
    <2>4. \A i \in DOMAIN s : i \in 1 .. Len(frames[c]) - 1 /\ i \in DOMAIN frames[c]
      BY <2>1, <2>2
    <2>5. \A i \in DOMAIN s : s[i].next <= Len(plugins) + 1
      BY <1>0, <2>2, <2>4 DEF TypeOK
    <2> QED
      BY <1>0, <2>1, <2>2, <2>3, <2>5, StackStep DEF TypeOK
  <1> QED
    BY <1>1, <1>2, <1>3 DEF Dispatching

LEMMA BeginningKeeps ==
    ASSUME LockInv, NEW c \in Callers, NEW first \in BOOLEAN,
           Operation(c, first) \/ Nest(c, first)
    PROVE  LockInv' /\ plugins' = plugins
  <1>0. TypeOK /\ Dispatch(first) \in Frame
        /\ Dispatch(first).at = "lock" /\ Dispatch(first).next = 1
    BY DEF LockInv, Dispatch, Frame
  <1>1. CASE Operation(c, first)
    <2> DEFINE s == Append(frames[c], Dispatch(first))
    <2>1. frames[c] \in Seq(Frame) /\ Len(frames[c]) = 0
      BY <1>0, <1>1 DEF Operation, TypeOK
    <2>2. /\ s \in Seq(Frame) /\ Len(s) = 1
          /\ s[1] = Dispatch(first)
      BY <1>0, <2>1, PushType
    <2>3. frames' = [frames EXCEPT ![c] = s] /\ UNCHANGED <<plugins, reg, copy>>
      BY <1>0, <1>1 DEF Operation, Push, TypeOK
    <2>4. left' \in [Callers -> 0 .. MaxDispatches]
      BY <1>0, <1>1 DEF Operation, TypeOK
    <2> HIDE DEF s
    <2>5. \A i \in DOMAIN s : s[i].next <= Len(plugins) + 1 /\ s[i].at = "lock"
      <3>1. DOMAIN s = 1 .. 1 /\ Len(plugins) \in Nat
        BY <1>0, <2>2 DEF TypeOK
      <3> QED
        BY <1>0, <2>2, <3>1
    <2> QED
      BY <2>2, <2>3, <2>4, <2>5, StackStep
  <1>2. CASE Nest(c, first)
    <2> DEFINE f == [Top(c) EXCEPT !.called = TRUE]
               r == [frames[c] EXCEPT ![Len(frames[c])] = f]
               s == Append(r, Dispatch(first))
    <2>1. /\ frames[c] \in Seq(Frame) /\ frames[c] # <<>>
          /\ Top(c) \in Frame
          /\ Top(c).next <= Len(plugins) + 1
          /\ Reading(c)
      BY <1>0, <1>2, TopIn DEF Nest, Reading, In, Top
    <2>2. f \in Frame /\ f.next <= Len(plugins) + 1
      BY <2>1 DEF Frame
    <2>3. r = [frames[c] EXCEPT ![Len(frames[c])].called = TRUE]
      BY <2>1 DEF Top
    <2> HIDE DEF f
    <2>4. /\ r \in Seq(Frame)
          /\ DOMAIN r = DOMAIN frames[c]
          /\ \A i \in DOMAIN r : r[i] = IF i = Len(frames[c]) THEN f ELSE frames[c][i]
      BY <2>1, <2>2, TopType
    <2>5. frames' = [frames EXCEPT ![c] = s] /\ UNCHANGED <<plugins, reg, copy, left>>
      BY <1>0, <1>2, <2>3 DEF Nest, TypeOK
    <2> HIDE DEF r
    <2>6. \A i \in DOMAIN r : r[i].next <= Len(plugins) + 1
      BY <1>0, <2>2, <2>4 DEF TypeOK
    <2>7. /\ s \in Seq(Frame) /\ Len(s) = Len(r) + 1
          /\ \A i \in 1 .. Len(r) : s[i] = r[i]
          /\ s[Len(r) + 1] = Dispatch(first)
      BY <1>0, <2>4, PushType
    <2> HIDE DEF s
    <2>8. ASSUME NEW i \in DOMAIN s
          PROVE  s[i].next <= Len(plugins) + 1
      <3>1. Len(plugins) \in Nat /\ Len(r) \in Nat /\ DOMAIN r = 1 .. Len(r) /\ DOMAIN s = 1 .. Len(r) + 1
        BY <1>0, <2>4, <2>7 DEF TypeOK
      <3>2. CASE i \in 1 .. Len(r)
        BY <2>6, <2>7, <3>1, <3>2
      <3>3. CASE i = Len(r) + 1
        BY <1>0, <2>7, <3>1, <3>3
      <3> QED
        BY <3>1, <3>2, <3>3
    <2> QED
      BY <1>0, <2>1, <2>5, <2>7, <2>8, StackStep DEF TypeOK
  <1> QED
    BY <1>1, <1>2

------------------------------------------------------------------------------
\* The invariant is inductive, and the list changes only while nobody reads.
LEMMA StepLock ==
    ASSUME LockInv, [Next]_vars
    PROVE  LockInv' /\ (plugins' # plugins => ReadersIn = {})
  <1>1. CASE UNCHANGED vars
    BY <1>1 DEF vars, LockInv, TypeOK, Exclusive, NoLostPlugin, Writer, Reading
  <1>2. ASSUME NEW p \in Extra, Registering(p)
        PROVE  LockInv' /\ (plugins' # plugins => ReadersIn = {})
    BY <1>2, RegisteringKeeps, RegisterKeeps DEF Registering
  <1>3. ASSUME NEW c \in Callers, Dispatching(c)
        PROVE  LockInv' /\ plugins' = plugins
    BY <1>3, DispatchingKeeps
  <1>4. ASSUME NEW c \in Callers, NEW first \in BOOLEAN, Operation(c, first) \/ Nest(c, first)
        PROVE  LockInv' /\ plugins' = plugins
    BY <1>4, BeginningKeeps
  <1> QED
    BY <1>1, <1>2, <1>3, <1>4 DEF Next

\* The list, the stacks and the registrations keep their shape, and no caller
\* is past the end of the list, whoever registers and however deep it is.
THEOREM TypeCorrect == Spec => []TypeOK
  <1>1. LockInv => TypeOK
    BY DEF LockInv
  <1> QED
    BY InitLock, StepLock, <1>1, PTL DEF Spec

\* A registration that has returned is in the list, however many run at once
\* (Register: Thread-safe).
THEOREM NothingLost == Spec => []NoLostPlugin
  <1>1. LockInv => NoLostPlugin
    BY DEF LockInv
  <1> QED
    BY InitLock, StepLock, <1>1, PTL DEF Spec

\* The list does not change while a caller goes through it, at any depth of
\* dispatch (the read lock of RunReconcilers and the other loops).
THEOREM StableWhileRead == Spec => DispatchStable
  <1>1. LockInv /\ [Next]_vars => (plugins' # plugins => ReadersIn = {})
    BY StepLock
  <1>2. LockInv /\ [Next]_vars => [plugins' # plugins => ReadersIn = {}]_vars
    BY <1>1
  <1> QED
    BY InitLock, StepLock, <1>2, PTL DEF Spec, DispatchStable
==============================================================================
