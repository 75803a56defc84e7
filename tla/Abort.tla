------------------------------- MODULE Abort --------------------------------
(***************************************************************************)
(* AbortController, AbortSignal and the dispatch of their abort events     *)
(* (include/qjsbind/web/abort.hpp, events.hpp). Everything runs on the     *)
(* thread of the runtime; the interleaving is that of calls inside calls:  *)
(* abort() dispatches synchronously, and a listener is a script, which may *)
(* abort another signal, combine signals or add listeners before the       *)
(* dispatch around it goes on. A script that changes the list of listeners *)
(* that a dispatch walks through is left out: the loop over the vector is  *)
(* then undefined.                                                         *)
(***************************************************************************)
EXTENDS Naturals, Sequences, FiniteSets, SequencesExt

CONSTANTS Controlled,  \* signals of controllers and of AbortSignal.timeout
          Combined,    \* signals that AbortSignal.any makes
          Listeners,   \* functions of the script
          AbortEdits   \* operations of the script in one behaviour

ASSUME AbortAssumption ==
  /\ Controlled \cap Combined = {} /\ Combined \cap Listeners = {} /\ AbortEdits \in Nat

Signals == Controlled \cup Combined

VARIABLES
  aborted,     \* signals; their stop_source is stopped with them
  listeners,   \* [Signals -> Seq]: a function of the script, or the signal to abort
  sources,     \* [Combined -> SUBSET Signals], {} until any() makes it
  frames,      \* the dispatches under way, the innermost last: signal and next listener
  scripted,    \* the innermost one is inside a function of the script
  faked,       \* signals at which the script itself dispatched an abort event
  abortEdits

abortVars == <<aborted, listeners, sources, frames, scripted, faked, abortEdits>>

Made == Controlled \cup {d \in Combined : sources[d] # {}}

AbortInit ==
  /\ aborted \in SUBSET Controlled        \* AbortSignal.abort() makes an aborted one
  /\ listeners = [s \in Signals |-> <<>>]
  /\ sources = [d \in Combined |-> {}]
  /\ frames = <<>> /\ scripted = FALSE /\ faked = {} /\ abortEdits = 0

-----------------------------------------------------------------------------
\* Under the calls f that are under way, abort s: the flag, then the listeners.
AbortIn(f, s) ==
  IF s \in aborted THEN frames' = f /\ UNCHANGED aborted
  ELSE aborted' = aborted \cup {s} /\ frames' = Append(f, [signal |-> s, next |-> 1])

\* The script runs: outside of any dispatch or as a listener.
Script ==
  /\ frames = <<>> \/ scripted
  /\ abortEdits < AbortEdits /\ abortEdits' = abortEdits + 1

Dispatching(s) == \E k \in DOMAIN frames : frames[k].signal = s

ScriptAbort(s) ==
  /\ Script /\ AbortIn(frames, s) /\ scripted' = (scripted /\ s \in aborted)
  /\ UNCHANGED <<listeners, sources, faked>>

\* The timer of AbortSignal.timeout, from the loop.
TimeOut(s) ==
  /\ frames = <<>> /\ s \in Controlled \ aborted /\ AbortIn(frames, s)
  /\ UNCHANGED <<listeners, sources, scripted, faked, abortEdits>>

ScriptDispatch(s) ==
  /\ Script /\ frames' = Append(frames, [signal |-> s, next |-> 1]) /\ scripted' = FALSE
  /\ faked' = faked \cup {s}
  /\ UNCHANGED <<aborted, listeners, sources>>

AddListener(s, l) ==
  /\ Script /\ ~Dispatching(s)
  /\ listeners' = [listeners EXCEPT ![s] = Append(@, l)]
  /\ UNCHANGED <<aborted, sources, frames, scripted, faked>>

\* The first occurrence goes.
RemoveListener(s, l) ==
  /\ Script /\ ~Dispatching(s)
  /\ \E i \in DOMAIN listeners[s] :
       /\ listeners[s][i] = l /\ \A j \in 1..(i - 1) : listeners[s][j] # l
       /\ listeners' = [listeners EXCEPT ![s] = RemoveAt(@, i)]
  /\ UNCHANGED <<aborted, sources, frames, scripted, faked>>

\* Fault: signals that are aborted already are not looked at.
MutantAnyOf(d, list) ==
  /\ Script /\ sources[d] = {} /\ list \subseteq Made /\ (\A s \in list : ~Dispatching(s))
  /\ sources' = [sources EXCEPT ![d] = list]
  /\ listeners' = [s \in Signals |-> IF s \in list THEN Append(listeners[s], d) ELSE listeners[s]]
  /\ UNCHANGED <<aborted, frames, scripted, faked>>

\* AbortSignal.any: aborted from the start, or by a listener at each of the list. The new
\* signal has no listeners: nothing is dispatched.
AnyOf(d, list) ==
  /\ Script /\ sources[d] = {} /\ list \subseteq Made
  /\ sources' = [sources EXCEPT ![d] = list]
  /\ IF list \cap aborted # {}
     THEN aborted' = aborted \cup {d} /\ UNCHANGED listeners
     ELSE /\ \A s \in list : ~Dispatching(s)
          /\ listeners' = [s \in Signals |-> IF s \in list THEN Append(listeners[s], d) ELSE listeners[s]]
          /\ UNCHANGED aborted
  /\ UNCHANGED <<frames, scripted, faked>>

\* The next listener of the innermost dispatch; when there is none, dispatch() returns to the
\* caller. What a function of the script throws is caught there.
Step ==
  /\ frames # <<>>
  /\ LET f == Last(frames)
         on == [frames EXCEPT ![Len(frames)].next = @ + 1]
     IN IF f.next > Len(listeners[f.signal])
        THEN /\ frames' = Front(frames)
             /\ scripted' = (frames' # <<>> /\ LET g == Last(frames') IN listeners[g.signal][g.next - 1] \in Listeners)
             /\ UNCHANGED aborted
        ELSE LET l == listeners[f.signal][f.next]
             IN IF l \in Listeners THEN frames' = on /\ scripted' = TRUE /\ UNCHANGED aborted
                ELSE AbortIn(on, l) /\ scripted' = FALSE
  /\ UNCHANGED <<listeners, sources, faked, abortEdits>>

AbortNext ==
  \/ Step
  \/ \E s \in Controlled : TimeOut(s) \/ ScriptAbort(s)
  \/ \E s \in Made :
       \/ ScriptDispatch(s)
       \/ \E l \in Listeners : AddListener(s, l) \/ RemoveListener(s, l)
  \/ \E d \in Combined : \E list \in (SUBSET Signals) \ {{}} : AnyOf(d, list)

AbortSpec == AbortInit /\ [][AbortNext]_abortVars

(***************************************************************************)
(* Properties.                                                             *)
(***************************************************************************)
\* When no dispatch is under way, a signal of AbortSignal.any is aborted as soon as one of its
\* sources is, through any chain of them, wherever in a dispatch it was made and whatever the
\* listeners around it did, but for a change to the very list that is being dispatched, which
\* is undefined in the code; and it is aborted only if one of them is, or if the script itself
\* dispatched an abort event there.
AnyFollowsSources ==
  frames = <<>> =>
    \A d \in Combined :
      /\ sources[d] \cap aborted # {} => d \in aborted
      /\ d \in aborted => sources[d] \cap (aborted \cup faked) # {}

=============================================================================
