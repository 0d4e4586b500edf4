----------------------------- MODULE EventQueue -----------------------------
(***************************************************************************)
(* What EventManager promises the devices: an event scheduled for a tick   *)
(* is called in that tick, after the events scheduled for it earlier, and  *)
(* time does not pass while an event is due.                               *)
(***************************************************************************)
EXTENDS Naturals, Sequences

CONSTANTS Event,
          MaxTick   \* bound on the simulated time

VARIABLES now,
          agenda    \* per tick: the events still to be called, in order

Tick == 0..MaxTick

Init ==
  /\ now = 0
  /\ agenda = [t \in Tick |-> <<>>]

Schedule(e, t) ==
  /\ now <= t
  /\ agenda' = [agenda EXCEPT ![t] = Append(@, e)]
  /\ UNCHANGED now

Call ==
  /\ agenda[now] # <<>>
  /\ agenda' = [agenda EXCEPT ![now] = Tail(@)]
  /\ UNCHANGED now

Advance ==
  /\ now < MaxTick
  /\ agenda[now] = <<>>
  /\ now' = now + 1
  /\ UNCHANGED agenda

Next == (\E e \in Event, t \in Tick : Schedule(e, t)) \/ Call \/ Advance

Spec == Init /\ [][Next]_<<now, agenda>>
=============================================================================
