--------------------------- MODULE PluginRegistry ----------------------------
(***************************************************************************)
(* The plugin list and its read-write lock.  Register appends under the    *)
(* write lock.  RunReconcilers, RunInitializers, RunCheckers and           *)
(* RunRuleHandler visit the plugins in order under the read lock; a plugin *)
(* called back may run the protocol again (AfterTransition of the effort   *)
(* plugin sets the status of a parent), which dispatches again, in the     *)
(* same goroutine, before the outer read lock is released.                 *)
(* The lock is sync.RWMutex: a writer that waits holds back new readers,   *)
(* and its release lets the readers it held back in before the next writer.*)
(***************************************************************************)
EXTENDS Naturals, Sequences

CONSTANTS
    Builtin,        \* how many plugins New registers
    Extra,          \* plugins registered later, each by a goroutine of its own
    Callers,        \* goroutines that run protocol operations
    Nesting,        \* the callers whose operations dispatch again
    MaxNesting,     \* dispatches one of them is inside of at once
    MaxDispatches,  \* operations a caller runs
    RegisterFirst   \* TRUE: those callers start after every plugin is registered

ASSUME PluginRegistryAssumption ==
    /\ Builtin \in Nat
    /\ "builtin" \notin Extra
    /\ Nesting \subseteq Callers
    /\ MaxNesting \in Nat \ {0}
    /\ MaxDispatches \in Nat
    /\ RegisterFirst \in BOOLEAN

VARIABLES
    plugins,    \* the registered plugins, in order
    reg,        \* [Extra -> where Register(p) is]
    copy,       \* [Extra -> the list append has read]
    frames,     \* [Callers -> the dispatches it is inside of, innermost last]
    left        \* [Callers -> operations still to run]

vars == <<plugins, reg, copy, frames, left>>

\* at: waiting for the read lock, or holding it; next: the plugin to visit;
\* called: that plugin has been called and has dispatched.
Frame == [at : {"lock", "held back", "visit"}, next : Nat \ {0}, first : BOOLEAN,
          called : BOOLEAN]

Init ==
    /\ plugins = [i \in 1 .. Builtin |-> "builtin"]
    /\ reg = [p \in Extra |-> "start"]
    /\ copy = [p \in Extra |-> <<>>]
    /\ frames = [c \in Callers |-> <<>>]
    /\ left = [c \in Callers |-> MaxDispatches]

------------------------------------------------------------------------------
(* The lock.                                                               *)

ReadersIn == {c \in Callers : \E i \in DOMAIN frames[c] : frames[c][i].at = "visit"}

Writer == {p \in Extra : reg[p] \in {"waiting", "read", "append"}}

\* (mutant) a lock that lets readers in
NoReadersIgnored == TRUE

\* A writer that was announced enters when the readers inside have left.
NoReaders == ReadersIn = {}

\* (mutant) a registration does not lock
NoWriterIgnored == TRUE

NoWriter == Writer = {}

------------------------------------------------------------------------------
(* Register.                                                               *)

\* Lock: announced once no other writer is.
Lock(p) ==
    /\ reg[p] = "start"
    /\ NoWriter
    /\ reg' = [reg EXCEPT ![p] = "waiting"]
    /\ UNCHANGED <<plugins, copy, frames, left>>

Enter(p) ==
    /\ reg[p] = "waiting"
    /\ NoReaders
    /\ reg' = [reg EXCEPT ![p] = "read"]
    /\ UNCHANGED <<plugins, copy, frames, left>>

\* append reads the slice and stores the longer one.
ReadSlice(p) ==
    /\ reg[p] = "read"
    /\ copy' = [copy EXCEPT ![p] = plugins]
    /\ reg' = [reg EXCEPT ![p] = "append"]
    /\ UNCHANGED <<plugins, frames, left>>

\* (mutant) the readers held back are forgotten
LetInNone(s) == s

LetIn(s) == [i \in DOMAIN s |-> IF s[i].at = "held back" THEN [s[i] EXCEPT !.at = "visit"] ELSE s[i]]

\* The slice is stored and the lock released.
Register(p) ==
    /\ reg[p] = "append"
    /\ plugins' = Append(copy[p], p)
    /\ reg' = [reg EXCEPT ![p] = "done"]
    /\ frames' = [c \in Callers |-> LetIn(frames[c])]
    /\ UNCHANGED <<copy, left>>

------------------------------------------------------------------------------
(* Dispatch.                                                               *)

Top(c) == frames[c][Len(frames[c])]

In(c, at) == frames[c] # <<>> /\ Top(c).at = at

Push(c, f) == frames' = [frames EXCEPT ![c] = Append(@, f)]

SetTop(c, f) == frames' = [frames EXCEPT ![c] = [@ EXCEPT ![Len(@)] = f]]

\* first: RunRuleHandler, which stops at the first plugin that answers.
Dispatch(first) == [at |-> "lock", next |-> 1, first |-> first, called |-> FALSE]

Operation(c, first) ==
    /\ frames[c] = <<>>
    /\ left[c] > 0
    /\ RegisterFirst /\ c \in Nesting => \A p \in Extra : reg[p] = "done"
    /\ Push(c, Dispatch(first))
    /\ left' = [left EXCEPT ![c] = @ - 1]
    /\ UNCHANGED <<plugins, reg, copy>>

Arrive == IF NoWriter THEN "visit" ELSE "held back"

RLock(c) ==
    /\ In(c, "lock")
    /\ SetTop(c, [Top(c) EXCEPT !.at = Arrive])
    /\ UNCHANGED <<plugins, reg, copy, left>>

NextPlugin(f) == [f EXCEPT !.next = @ + 1, !.called = FALSE]

\* The plugin called returns.
Visit(c) ==
    /\ In(c, "visit")
    /\ Top(c).next <= Len(plugins)
    /\ SetTop(c, NextPlugin(Top(c)))
    /\ UNCHANGED <<plugins, reg, copy, left>>

\* The plugin called runs an operation, which dispatches.
Nest(c, first) ==
    /\ c \in Nesting
    /\ In(c, "visit")
    /\ Top(c).next <= Len(plugins)
    /\ ~Top(c).called
    /\ Len(frames[c]) < MaxNesting
    /\ frames' = [frames EXCEPT ![c] = Append([@ EXCEPT ![Len(@)].called = TRUE], Dispatch(first))]
    /\ UNCHANGED <<plugins, reg, copy, left>>

\* The loop is over, or a rule handler answered; RUnlock.
RUnlock(c) ==
    /\ In(c, "visit")
    /\ \/ Top(c).next > Len(plugins)
       \/ Top(c).first /\ Top(c).next > 1
    /\ frames' = [frames EXCEPT ![c] = SubSeq(@, 1, Len(@) - 1)]
    /\ UNCHANGED <<plugins, reg, copy, left>>

------------------------------------------------------------------------------
Registering(p) == Lock(p) \/ Enter(p) \/ ReadSlice(p) \/ Register(p)

Dispatching(c) == RLock(c) \/ Visit(c) \/ RUnlock(c)

Next ==
    \/ \E p \in Extra : Registering(p)
    \/ \E c \in Callers :
         \/ Dispatching(c)
         \/ \E first \in BOOLEAN : Operation(c, first) \/ Nest(c, first)

Spec == Init /\ [][Next]_vars

\* The Go scheduler runs every goroutine that can run.
FairSpec == Spec /\ \A p \in Extra : WF_vars(Registering(p))
                 /\ \A c \in Callers : WF_vars(Dispatching(c))
------------------------------------------------------------------------------
(* Properties.                                                             *)

TypeOK ==
    /\ plugins \in Seq(Extra \union {"builtin"})
    /\ reg \in [Extra -> {"start", "waiting", "read", "append", "done"}]
    /\ copy \in [Extra -> Seq(Extra \union {"builtin"})]
    /\ frames \in [Callers -> Seq(Frame)]
    /\ \A c \in Callers : \A i \in DOMAIN frames[c] : frames[c][i].next <= Len(plugins) + 1
    /\ left \in [Callers -> 0 .. MaxDispatches]

\* Two registrations at once lose no plugin (Register: Thread-safe).
NoLostPlugin ==
    \A p \in Extra : reg[p] = "done" => \E i \in DOMAIN plugins : plugins[i] = p

\* The list does not change while any caller is going through it, at any depth.
DispatchStable == [][plugins' # plugins => ReadersIn = {}]_vars

\* Every registration and every operation returns: no goroutine waits for the
\* lock for ever (Register: Thread-safe).
AllReturn ==
    /\ \A p \in Extra : <>(reg[p] = "done")
    /\ \A c \in Callers : []<>(frames[c] = <<>>)
==============================================================================
