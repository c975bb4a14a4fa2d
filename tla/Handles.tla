------------------------------ MODULE Handles ------------------------------
(***************************************************************************)
(* Who keeps what alive: the reference count of a QPU handle               *)
(* (src/src/qhw_qpu.c), the schedulers that retain it                      *)
(* (qhw_sched_create, qhw_sched_destroy), the policy libraries each        *)
(* scheduler has loaded (src/src/qhw_plugin.c), the policy state that runs *)
(* their code, and the names qhw_sched_list_policies hands out.            *)
(*                                                                         *)
(* qhw_sched_load_plugin opens the library and checks its descriptor       *)
(* without the scheduler mutex, registers it under the mutex, and closes   *)
(* it again without the mutex when it was refused: three steps of a        *)
(* thread.  qhw_sched_destroy is a sequence of steps as well, in which     *)
(* other schedulers go on; the release of a QPU decrements the count under *)
(* the QPU's lock and frees the handle after unlocking it.                 *)
(*                                                                         *)
(* The application keeps the rules of the API: it passes a QPU it holds a  *)
(* reference to, destroys a scheduler when no call on it is in progress    *)
(* and the arrays it was given are freed, and serialises its calls on a    *)
(* THREAD_USER scheduler.                                                  *)
(***************************************************************************)
EXTENDS Integers, FiniteSets, Sequences, SequencesExt

CONSTANTS
    Scheds, Threads, Libs,
    NameOf,         \* [Libs -> names]: the policy name in a library's descriptor
    ThreadFlags,    \* [Libs -> SUBSET {"safe", "user"}]: its thread_flags
    NoLib

ASSUME HandlesAssumption ==
    /\ NoLib \notin Libs
    /\ IsFiniteSet(Scheds) /\ IsFiniteSet(Threads) /\ IsFiniteSet(Libs)
    /\ DOMAIN NameOf = Libs
    /\ ThreadFlags \in [Libs -> SUBSET {"safe", "user"}]

VARIABLES
    qpu,        \* the QPU handle: "none", "alive", or "dying" between unlock and free
    refcount,   \* qpu->refcount
    appHolds,   \* the application has not called qhw_sched_qpu_destroy yet
    phase,      \* per scheduler: "none", "live", and the steps of qhw_sched_destroy
    threading,  \* sched->threading
    registry,   \* sched->plugins.items: the libraries, in the order they were added
    active,     \* the library whose descriptor is sched->policy.desc
    listed,     \* libraries whose names an array of list_policies points to
    opens,      \* per library: dlopen calls not yet matched by a dlclose
    load        \* per thread: its call of qhw_sched_load_plugin

qpuVars   == <<qpu, refcount, appHolds>>
schedVars == <<phase, threading, registry, active, listed>>
vars == <<qpuVars, schedVars, opens, load>>

NoLoad == [at |-> "idle"]

Init ==
    /\ qpu = "none" /\ refcount = 0 /\ appHolds = FALSE
    /\ phase = [s \in Scheds |-> "none"]
    /\ threading = [s \in Scheds |-> "safe"]
    /\ registry = [s \in Scheds |-> <<>>]
    /\ active = [s \in Scheds |-> NoLib]
    /\ listed = [s \in Scheds |-> {}]
    /\ opens = [l \in Libs |-> 0]
    /\ load = [th \in Threads |-> NoLoad]

----------------------------------------------------------------------------
(* The QPU handle *)

QpuCreate ==
    /\ qpu = "none"
    /\ qpu' = "alive" /\ refcount' = 1 /\ appHolds' = TRUE
    /\ UNCHANGED <<schedVars, opens, load>>

\* Mutant: the handle is freed with the last reference but one.
LastReferenceEarly == refcount = 2

\* Mutant: the count is tested before it is decremented.
LastReferenceLate == refcount = 0

LastReference == refcount = 1

\* qhw_qpu_release, the part under the QPU's lock
QpuRelease ==
    /\ refcount' = refcount - 1
    /\ qpu' = IF LastReference THEN "dying" ELSE qpu

\* qhw_sched_qpu_destroy
QpuDestroy ==
    /\ appHolds
    /\ appHolds' = FALSE
    /\ QpuRelease
    /\ UNCHANGED <<schedVars, opens, load>>

\* The rest of qhw_qpu_release, after the lock was given back
QpuFree ==
    /\ qpu = "dying"
    /\ qpu' = "none"
    /\ UNCHANGED <<refcount, appHolds, schedVars, opens, load>>

----------------------------------------------------------------------------
(* Creation of a scheduler *)

\* qhw_sched_create.  The QPU is retained last, when nothing can fail any more.
SchedCreate(s, mode) ==
    /\ phase[s] = "none"
    /\ appHolds
    /\ phase' = [phase EXCEPT ![s] = "live"]
    /\ threading' = [threading EXCEPT ![s] = mode]
    /\ refcount' = refcount + 1
    /\ UNCHANGED <<qpu, appHolds, registry, active, listed, opens, load>>

----------------------------------------------------------------------------
(* Loading a policy *)

\* A thread is in qhw_sched_load_plugin of s.
Loading(s) == \E th \in Threads : load[th] # NoLoad /\ load[th].sched = s

\* A call on s may begin: s is live, and one at a time when the caller serialises.
MayCall(s) == phase[s] = "live" /\ (threading[s] = "user" => ~Loading(s))

\* dlopen, external: the library stays mapped until every open is closed.
DlOpen(l)  == opens' = [opens EXCEPT ![l] = @ + 1]
DlClose(l) == opens' = [opens EXCEPT ![l] = @ - 1]

\* The first part of qhw_sched_load_plugin, when dlopen succeeds
LoadOpens(th, s, l) ==
    /\ load[th] = NoLoad
    /\ MayCall(s)
    /\ DlOpen(l)
    /\ load' = [load EXCEPT ![th] = [at |-> "opened", sched |-> s, lib |-> l]]
    /\ UNCHANGED <<qpuVars, schedVars>>

\* validate_plugin_desc; a descriptor that is invalid for every scheduler is one
\* without thread_flags.
ValidDesc(s, l) == threading[s] \in ThreadFlags[l]

\* qhw_plugin_registry_find
Found(s, name) == \E k \in DOMAIN registry[s] : NameOf[registry[s][k]] = name

\* The descriptor is invalid and the library is closed at once.
LoadInvalid(th) ==
    /\ load[th].at = "opened"
    /\ ~ValidDesc(load[th].sched, load[th].lib)
    /\ DlClose(load[th].lib)
    /\ load' = [load EXCEPT ![th] = NoLoad]
    /\ UNCHANGED <<qpuVars, schedVars>>

\* qhw_plugin_registry_add under the mutex.  A name that is registered already,
\* or no memory, refuses the library.
LoadAdds(th) ==
    LET s == load[th].sched
        l == load[th].lib
    IN  /\ load[th].at = "opened"
        /\ ValidDesc(s, l)
        /\ \/ /\ ~Found(s, NameOf[l])
              /\ registry' = [registry EXCEPT ![s] = Append(@, l)]
              /\ load' = [load EXCEPT ![th] = NoLoad]
           \/ /\ load' = [load EXCEPT ![th].at = "refused"]
              /\ UNCHANGED registry
        /\ UNCHANGED <<qpuVars, phase, threading, active, listed, opens>>

\* The refused library is closed after the mutex was given back.
LoadRefused(th) ==
    /\ load[th].at = "refused"
    /\ DlClose(load[th].lib)
    /\ load' = [load EXCEPT ![th] = NoLoad]
    /\ UNCHANGED <<qpuVars, schedVars>>

----------------------------------------------------------------------------
(* Using the registry *)

\* qhw_sched_set_policy: the first item of that name is initialised, the state
\* of the old policy is finished by its own code, and the descriptor is copied.
SetPolicy(s, name) ==
    /\ MayCall(s)
    /\ \E k \in DOMAIN registry[s] :
          /\ NameOf[registry[s][k]] = name
          /\ \A j \in 1..(k - 1) : NameOf[registry[s][j]] # name
          /\ active' = [active EXCEPT ![s] = registry[s][k]]
    /\ UNCHANGED <<qpuVars, phase, threading, registry, listed, opens, load>>

\* qhw_sched_list_policies: the array points to the names in the libraries.
ListPolicies(s) ==
    /\ MayCall(s)
    /\ listed[s] = {}
    /\ listed' = [listed EXCEPT ![s] = ToSet(registry[s])]
    /\ UNCHANGED <<qpuVars, phase, threading, registry, active, opens, load>>

\* qhw_sched_free_policy_info_array
FreePolicyInfoArray(s) ==
    /\ listed[s] # {}
    /\ listed' = [listed EXCEPT ![s] = {}]
    /\ UNCHANGED <<qpuVars, phase, threading, registry, active, opens, load>>

----------------------------------------------------------------------------
(* Destruction of a scheduler *)

\* No call on s is in progress and nothing it handed out is in use.
MayDestroy(s) ==
    /\ phase[s] = "live"
    /\ listed[s] = {}
    /\ ~Loading(s)

\* Mutant: the policy state is left to the end.
DestroyBeginsLate(s) ==
    /\ MayDestroy(s)
    /\ phase' = [phase EXCEPT ![s] = "closing"]
    /\ UNCHANGED <<qpuVars, threading, registry, active, listed, opens, load>>

\* qhw_sched_destroy, first part: the policy's fini runs.
DestroyBegins(s) ==
    /\ MayDestroy(s)
    /\ phase' = [phase EXCEPT ![s] = "closing"]
    /\ active' = [active EXCEPT ![s] = NoLib]
    /\ UNCHANGED <<qpuVars, threading, registry, listed, opens, load>>

\* One round of the loop of qhw_plugin_registry_fini
DestroyCloses(s) ==
    /\ phase[s] = "closing"
    /\ registry[s] # <<>>
    /\ DlClose(Head(registry[s]))
    /\ registry' = [registry EXCEPT ![s] = Tail(@)]
    /\ UNCHANGED <<qpuVars, phase, threading, active, listed, load>>

\* The registry is empty: the table is freed, the QPU released, the scheduler gone.
DestroyEnds(s) ==
    /\ phase[s] = "closing"
    /\ registry[s] = <<>>
    /\ phase' = [phase EXCEPT ![s] = "none"]
    /\ threading' = [threading EXCEPT ![s] = "safe"]
    /\ active' = [active EXCEPT ![s] = NoLib]
    /\ QpuRelease
    /\ UNCHANGED <<appHolds, registry, listed, opens, load>>

----------------------------------------------------------------------------
LoadStep(th) == LoadInvalid(th) \/ LoadAdds(th) \/ LoadRefused(th)

DestroyStep(s) == DestroyCloses(s) \/ DestroyEnds(s)

Next ==
    \/ QpuCreate \/ QpuDestroy \/ QpuFree
    \/ \E s \in Scheds :
          \/ \E mode \in {"safe", "user"} : SchedCreate(s, mode)
          \/ \E l \in Libs : SetPolicy(s, NameOf[l])
          \/ ListPolicies(s) \/ FreePolicyInfoArray(s)
          \/ DestroyBegins(s) \/ DestroyStep(s)
    \/ \E th \in Threads :
          \/ \E s \in Scheds, l \in Libs : LoadOpens(th, s, l)
          \/ LoadStep(th)

\* A thread goes on with the call it is in; nothing makes it begin one.
Fairness ==
    /\ WF_vars(QpuFree)
    /\ \A th \in Threads : WF_vars(LoadStep(th))
    /\ \A s \in Scheds : WF_vars(DestroyStep(s))

Spec == Init /\ [][Next]_vars /\ Fairness

----------------------------------------------------------------------------
\* Code that may still be called, and strings that may still be read, are
\* mapped: the library of an active policy and of every name handed out is open
\* for as long, whichever schedulers were refused it, destroyed, or share it;
\* and it supports the threading mode of the scheduler that calls it.
PolicyCodeMapped ==
    \A s \in Scheds :
        /\ active[s] # NoLib => opens[active[s]] > 0 /\ threading[s] \in ThreadFlags[active[s]]
        /\ \A l \in listed[s] : opens[l] > 0

\* The QPU handle is alive exactly as long as the application or a scheduler,
\* live or being destroyed, may use it, and the count is that of its holders,
\* whatever the order in which they give it up.
QpuOutlivesHolders ==
    LET holders == {s \in Scheds : phase[s] # "none"}
    IN  /\ refcount = Cardinality(holders) + (IF appHolds THEN 1 ELSE 0)
        /\ qpu = "alive" <=> appHolds \/ holders # {}

\* When the application has given up its QPU and its schedulers, the handle is
\* freed and every library is closed as often as it was opened: refused loads,
\* duplicate names and destroyed schedulers leak nothing.
EverythingReleased ==
    (~appHolds /\ \A s \in Scheds : phase[s] = "none")
        ~> (qpu = "none" /\ \A l \in Libs : opens[l] = 0) \/ appHolds
=============================================================================
