------------------------------ MODULE TwinCodes ------------------------------
(***************************************************************************)
(* The same requests and the same guesses made of two addresses, whatever  *)
(* the policy says of either, by somebody who reads neither's mail.        *)
(* Whatever else decides an answer (the database failing, the mail slots,  *)
(* the send limits, time, restarts) is the same for both.                  *)
(***************************************************************************)
EXTENDS Naturals

CONSTANTS
    Proc, Ip, None, Admissions, TTL, Cooldown, MaxAttempts, MaxTotal, WrongCodes,
    MaxClock, MaxCodes, MaxGranted

VARIABLES
    clock, granted,
    leftAdmits, leftCode, leftAttempts, leftTokens, leftAsked, leftReq, leftLedger,
    rightAdmits, rightCode, rightAttempts, rightTokens, rightAsked, rightReq, rightLedger

vars == <<clock, granted, leftAdmits, leftCode, leftAttempts, leftTokens, leftAsked, leftReq, leftLedger,
          rightAdmits, rightCode, rightAttempts, rightTokens, rightAsked, rightReq, rightLedger>>

Left == INSTANCE OneTimeCodes WITH
    admitted <- leftAdmits, code <- leftCode, attempts <- leftAttempts, tokens <- leftTokens,
    asked <- leftAsked, req <- leftReq, ledger <- leftLedger

Right == INSTANCE OneTimeCodes WITH
    admitted <- rightAdmits, code <- rightCode, attempts <- rightAttempts, tokens <- rightTokens,
    asked <- rightAsked, req <- rightReq, ledger <- rightLedger

\* The limits of both addresses are those of the program.
ASSUME TwinAssumption == Left!CodesAssumption

Init == Left!Init /\ Right!Init

Next ==
    \/ \E p \in Proc, ip \in Ip, open \in BOOLEAN :
         \/ Left!RequestBegin(p, ip, open) /\ Right!RequestBegin(p, ip, open)
         \/ Left!VerifyBegin(p, ip, open, 0) /\ Right!VerifyBegin(p, ip, open, 0)
    \/ \E p \in Proc, ok \in BOOLEAN :
         \/ Left!PruneCodes(p, ok) /\ Right!PruneCodes(p, ok)
         \/ Left!SweepAttempts(p, ok) /\ Right!SweepAttempts(p, ok)
         \/ Left!CheckRecent(p, ok) /\ Right!CheckRecent(p, ok)
         \/ Left!Save(p, ok) /\ Right!Save(p, ok)
         \/ Left!Fill(p, ok) /\ Right!Fill(p, ok)
         \/ Left!Consume(p, ok) /\ Right!Consume(p, ok)
    \/ \E p \in Proc, saturated, allowed \in BOOLEAN :
         Left!Choose(p, saturated, allowed) /\ Right!Choose(p, saturated, allowed)
    \/ \E p \in Proc :
         \/ Left!RequestEnd(p) /\ Right!RequestEnd(p)
         \/ Left!Charge(p) /\ Right!Charge(p)
         \/ Left!VerifyEnd(p) /\ Right!VerifyEnd(p)
    \/ Left!Tick /\ Right!Tick
    \/ \E ip \in Ip : Left!Refill(ip) /\ Right!Refill(ip)
    \/ \E left, right \in Admissions : Left!Restart(left) /\ Right!Restart(right)

Spec == Init /\ [][Next]_vars

\* Nothing either address is answered, and no step taken to answer it, tells
\* which one the policy admits: the rows, the counters and the cooldown behave
\* the same whether or not mail is sent (handleRequest: a decoy that differed
\* "would answer the next wrong guess differently, and that difference is
\* allow-list membership").
Indistinguishable ==
    \A p \in Proc : leftReq[p].pc = rightReq[p].pc /\ leftReq[p].result = rightReq[p].result

=============================================================================
