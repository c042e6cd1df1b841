------------------------------- MODULE KernEvent -------------------------------
(***************************************************************************)
(* Events: src/kern/kern_event.c and the part of the system tick that      *)
(* looks after their waiters (scan_event_state of src/kern/kern.c).        *)
(*                                                                         *)
(* An event has a word `pattern`, but what a wait tests is the word at     *)
(* io_addr, which is that word itself or, say, a register of a device.     *)
(***************************************************************************)
EXTENDS KernCalls

CONSTANTS
  Event,     \* the event, named by its wait queue
  Bit,       \* the bits of a pattern
  Conditions,\* what the application waits for: wait_mode and wait_pattern
  EventSetups \* what kern_event_create may have been told: attr, and io_addr, which
              \* points to "pattern" or a "register"

\* KERN_EVENT_ATTR_CLR is only accepted together with KERN_EVENT_ATTR_SINGLE.
ASSUME EventAssumption ==
  /\ Event \in Queue /\ Bit # {}
  /\ Conditions \subseteq [mode : {"AND", "OR"}, pattern : (SUBSET Bit) \ {{}}]
  /\ EventSetups \subseteq
       [attr : {{"SINGLE"}, {"SINGLE", "CLR"}, {"SINGLE", "MULTI"}, {"MULTI"}},
        io   : {"pattern", "register"}]

VARIABLES
  evf,      \* the fields attr, io_addr and pattern of the _EVENT
  register, \* the word at io_addr, if it is not evf.pattern
  ewait     \* ewait_mode and ewait_pattern of the TCBs

evvars == << evf, register, ewait >>

NoWait == [mode |-> "AND", pattern |-> {}]

\* kern_event_create.
EventInit(e) ==
  /\ evf = [attr |-> e.attr, io |-> e.io, pattern |-> {}]
  /\ register = {}
  /\ ewait = [t \in Task |-> NoWait]
-----------------------------------------------------------------------------
\* *io_addr of an event with this pattern.
IoVal(pattern) == IF evf.io = "pattern" THEN pattern ELSE register

fCond(val, c) ==
  IF c.mode = "OR" THEN val \cap c.pattern # {} ELSE c.pattern \subseteq val

Illegal == "SINGLE" \in evf.attr /\ k.wq[Event] # << >>

Cleared(f) == IF "CLR" \in f.attr THEN [f EXCEPT !.pattern = {}] ELSE f

\* The condition holds at once, or the call changes nothing and returns ERR_ILUSE or
\* ERR_TIMEOUT.
Polls(c) ==
  /\ evf' = IF ~Illegal /\ fCond(IoVal(evf.pattern), c) THEN Cleared(evf) ELSE evf
  /\ UNCHANGED << k, register, ewait >>

kern_event_wait(c, timeout) ==
  \/ /\ Illegal \/ fCond(IoVal(evf.pattern), c)
     /\ Quick(Event) /\ Returns /\ Polls(c)
  \/ /\ At("entered", Event) /\ ~Illegal /\ ~fCond(IoVal(evf.pattern), c)
     /\ ewait' = [ewait EXCEPT ![curr] = c]
     /\ Waits(Event, "EVENT", timeout)
     /\ UNCHANGED << evf, register >>

kern_event_wait_polling(c) ==
  Quick(Event) /\ Returns /\ Polls(c)

kern_event_iwait(c) ==
  Handler(Event) /\ Polls(c) /\ UNCHANGED request

(***************************************************************************)
(* scan_event_waitqueue and scan_event_state: every waiter whose condition *)
(* holds is unlinked and its wait ended. Both return whether one of them   *)
(* became runnable.                                                        *)
(***************************************************************************)
Satisfied(val, t) == fCond(val, ewait[t])

\* (Wrong: the scan would end with the first waiter it serves.)
scan_event_waitqueue_First(s, val) ==
  LET w == SelectSeq(s.wq[Event], LAMBDA t : Satisfied(val, t))
  IN  IF w = << >> THEN s ELSE task_wait_complete(s, Head(w))

scan_event_waitqueue(s, val) ==
  LET w == s.wq[Event]
      scan[i \in 0..Len(w)] ==
        IF i = 0 THEN s
        ELSE IF Satisfied(val, w[i]) THEN task_wait_complete(scan[i-1], w[i]) ELSE scan[i-1]
  IN  scan[Len(w)]

\* The flags are handed over in ewait_pattern.
HandsFlags(val) ==
  ewait' = [t \in Task |-> IF k.pwait[t] = Event /\ k'.pwait[t] # Event
                           THEN [ewait[t] EXCEPT !.pattern = val] ELSE ewait[t]]

\* What both kinds of set do. Only for a waiter that became runnable is the pattern cleared.
Sets(pattern) ==
  LET set == [evf EXCEPT !.pattern = @ \cup pattern]
      val == IoVal(set.pattern)
  IN  /\ k' = scan_event_waitqueue(k, val)
      /\ HandsFlags(val)
      /\ evf' = IF Woken THEN Cleared(set) ELSE set
      /\ UNCHANGED register

kern_event_set(pattern)  == Quick(Event) /\ Sets(pattern) /\ CallEnds
kern_event_iset(pattern) == Handler(Event) /\ Sets(pattern) /\ request' = (request \/ Woken)

Clears(pattern) ==
  evf' = [evf EXCEPT !.pattern = @ \cap pattern] /\ UNCHANGED << k, register, ewait >>

kern_event_clear(pattern)  == Quick(Event) /\ Returns /\ Clears(pattern)
kern_event_iclear(pattern) == Handler(Event) /\ Clears(pattern) /\ UNCHANGED request

\* The second half of kern_event_wait stores ewait_pattern at p_flags_pattern. (It stays in
\* the TCB, where nothing reads it any more.)
EventWaited ==
  /\ SecondHalf(Event)
  /\ ewait' = [ewait EXCEPT ![curr] = NoWait]
  /\ UNCHANGED << evf, register >>

tn_event_delete == DeletionStep(Event, FALSE) /\ UNCHANGED evvars

\* The device changes its register.
Device ==
  /\ evf.io = "register" /\ exists[Event]
  /\ register' \in (SUBSET Bit) \ {register}
  /\ UNCHANGED << vars, callvars, evf, ewait >>
-----------------------------------------------------------------------------
\* The tick scans the event that a task it meets on kern_create_queue waits for.
EventScan(s, t) ==
  IF t # CreateList /\ s.pwait[t] = Event THEN scan_event_waitqueue(s, IoVal(evf.pattern)) ELSE s

EventNext(timeouts) ==
  \/ Enter(Event) /\ UNCHANGED evvars
  \/ \E c \in Conditions :
       \/ \E timeout \in timeouts : kern_event_wait(c, timeout)
       \/ kern_event_wait_polling(c)
       \/ kern_event_iwait(c)
  \/ \E p \in (SUBSET Bit) \ {{}} : kern_event_set(p) \/ kern_event_iset(p)
  \/ \E p \in (SUBSET Bit) \ {Bit} : kern_event_clear(p) \/ kern_event_iclear(p)
  \/ EventWaited
  \/ tn_event_delete
  \/ Device
-----------------------------------------------------------------------------
(* Properties *)

EventTypeOK ==
  /\ [attr |-> evf.attr, io |-> evf.io] \in EventSetups /\ evf.pattern \subseteq Bit
  /\ register \in SUBSET Bit
  /\ ewait \in [Task -> [mode : {"AND", "OR"}, pattern : SUBSET Bit]]

\* No task goes on waiting for flags that the event has, in whatever order they are set
\* and cleared and its waiters suspended, timed out or served. (The register of a device
\* is only looked at now and then.)
NoEventMissed ==
  Undisturbed /\ evf.io = "pattern" => \A t \in ToSet(k.wq[Event]) : ~Satisfied(evf.pattern, t)
=============================================================================
