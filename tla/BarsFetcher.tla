----------------------------- MODULE BarsFetcher -----------------------------
(***************************************************************************)
(* The BarsFetcher protocol: what a caller may rely on, whether it asks the  *)
(* provider or a cache in front of it.  An answer holds every bar of the     *)
(* range that was complete when the call was made, and nothing the provider  *)
(* does not have by the time it is given.                                    *)
(***************************************************************************)
EXTENDS Naturals

CONSTANTS
  Clients,   \* the processes that ask
  Symbols,
  Traded     \* per symbol, the time slots it has a bar in

VARIABLES
  clock,     \* slots completed so far
  asked,     \* the call of each client, NoCall if it is not waiting for one
  answer     \* the last answer of each client

NoCall  == [waiting |-> FALSE, syms |-> {}, from |-> 0, to |-> 0, at |-> 0]
Nothing == [s \in Symbols |-> {}]

\* The bars of a symbol in a range that are complete at some time.
Complete(s, from, to, at) == {t \in Traded[s] : from <= t /\ t < to /\ t < at}

Init ==
  /\ clock \in Nat
  /\ asked = [c \in Clients |-> NoCall]
  /\ answer = [c \in Clients |-> Nothing]

SlotEnds == clock' = clock + 1 /\ UNCHANGED <<asked, answer>>

Ask(c) ==
  /\ asked[c] = NoCall
  /\ asked'[c].waiting /\ asked'[c].at = clock
  /\ asked' = [asked EXCEPT ![c] = asked'[c]]
  /\ UNCHANGED <<clock, answer>>

Answer(c) ==
  /\ asked[c] # NoCall
  /\ asked' = [asked EXCEPT ![c] = NoCall]
  /\ answer' = [answer EXCEPT ![c] = answer'[c]]
  /\ LET q == asked[c] IN
     \A s \in Symbols :
       IF s \in q.syms
       THEN /\ Complete(s, q.from, q.to, q.at) \subseteq answer'[c][s]
            /\ answer'[c][s] \subseteq Complete(s, q.from, q.to, clock)
       ELSE answer'[c][s] = {}
  /\ UNCHANGED clock

\* The call raises.
Fail(c) ==
  /\ asked[c] # NoCall
  /\ asked' = [asked EXCEPT ![c] = NoCall]
  /\ UNCHANGED <<clock, answer>>

Next == SlotEnds \/ \E c \in Clients : Ask(c) \/ Answer(c) \/ Fail(c)

Spec == Init /\ [][Next]_<<clock, asked, answer>>
=============================================================================
