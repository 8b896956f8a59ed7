---------------------------- MODULE KeyedCreate ----------------------------
(***************************************************************************)
(* What POST /reports promises a client that retries: an Idempotency-Key   *)
(* gets one report for ever, every accepted call with that key names it,   *)
(* and an accepted call without a key has a report of its own.  How the    *)
(* handlers race to get there is the business of ReportsApi.               *)
(***************************************************************************)
CONSTANTS Reports, Keys, NoKey, Calls, KeyOf, NoReport

VARIABLES
  made,      \* the reports there are
  reportOf,  \* the report of each key
  answer     \* the report that an accepted call was answered with

vars == <<made, reportOf, answer>>

Init == /\ made = {}
        /\ reportOf = [k \in Keys |-> NoReport]
        /\ answer = [c \in Calls |-> NoReport]

MakeKeyless(r) ==
  /\ r \notin made
  /\ made' = made \cup {r}
  /\ UNCHANGED <<reportOf, answer>>

MakeKeyed(r, k) ==
  /\ r \notin made
  /\ reportOf[k] = NoReport
  /\ made' = made \cup {r}
  /\ reportOf' = [reportOf EXCEPT ![k] = r]
  /\ UNCHANGED answer

ReplyKeyed(c) ==
  /\ KeyOf[c] # NoKey
  /\ reportOf[KeyOf[c]] # NoReport
  /\ answer[c] = NoReport
  /\ answer' = [answer EXCEPT ![c] = reportOf[KeyOf[c]]]
  /\ UNCHANGED <<made, reportOf>>

\* The report is no key's and no other call's.
ReplyKeyless(c, r) ==
  /\ KeyOf[c] = NoKey
  /\ r \in made
  /\ \A k \in Keys : reportOf[k] # r
  /\ \A d \in Calls : answer[d] # r
  /\ answer[c] = NoReport
  /\ answer' = [answer EXCEPT ![c] = r]
  /\ UNCHANGED <<made, reportOf>>

Next == \/ \E r \in Reports : MakeKeyless(r) \/ \E k \in Keys : MakeKeyed(r, k)
        \/ \E c \in Calls : ReplyKeyed(c) \/ \E r \in Reports : ReplyKeyless(c, r)

Spec == Init /\ [][Next]_vars
=============================================================================
