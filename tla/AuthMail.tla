------------------------------ MODULE AuthMail ------------------------------
(***************************************************************************)
(* The outbox of account mail: transactions queue rows, a maintenance loop *)
(* hands them to the mail provider, the provider reports bounces.          *)
(*                                                                         *)
(* A row is taken with FOR UPDATE SKIP LOCKED, so at most one dispatcher   *)
(* holds it; `held` is how far that dispatcher is.  The provider answers   *)
(* the same for a repeated idempotency key (the row's identifier), so a    *)
(* row that was sent twice is one message: `inbox`.                        *)
(***************************************************************************)
EXTENDS Scenario, Integers, Sequences, FiniteSets

CONSTANT MaxSends   \* tries before a row is given up (6 in the code)

VARIABLES mail,         \* auth_email_outbox
          suppressed    \* auth_email_suppressions

mailVars == <<mail, suppressed>>

NoMail == [st |-> "gone", acct |-> 0, email |-> "none", chal |-> 0, tries |-> 0,
           held |-> "no", inbox |-> FALSE, id |-> FALSE]

\* Scenarios that do not follow the outbox leave it empty.
queueEmailTx(M, a, e, c) ==
    IF May("mail")
    THEN Append(M, [NoMail EXCEPT !.st = "queued", !.acct = a, !.email = e, !.chal = c])
    ELSE M

\* The code of challenge c can be read: its message reached the provider.
Mailed(c) == May("mail") => \E m \in DOMAIN mail : mail[m].chal = c /\ mail[m].inbox

Set(m, r) == mail' = [mail EXCEPT ![m] = r]

PickMail(m) ==
    /\ mail[m].st = "queued" /\ mail[m].held = "no"
    /\ Set(m, [mail[m] EXCEPT !.held = IF mail[m].email \in suppressed
                                       THEN "suppressed" ELSE "picked"])
    /\ UNCHANGED suppressed

\* The provider takes the message, refuses it for good, or fails for now; a
\* failure may also be an answer that was lost on its way back.
SendMail(m) ==
    /\ mail[m].held = "picked"
    /\ \E r \in {"sent", "permanent", "failed"}, lost \in BOOLEAN :
          /\ lost => r = "failed"
          /\ Set(m, [mail[m] EXCEPT !.held = r, !.inbox = @ \/ r = "sent" \/ lost])
    /\ UNCHANGED suppressed

deliveredStatus(m) ==
    CASE mail[m].held = "suppressed" -> "suppressed"
      [] mail[m].held = "sent" -> "accepted"
      [] mail[m].held = "permanent" \/ mail[m].tries + 1 >= MaxSends -> "failed"
      [] OTHER -> "queued"

deliverAuthEmail(m) ==
    /\ mail[m].held \in {"suppressed", "sent", "permanent", "failed"}
    /\ Set(m, [mail[m] EXCEPT !.st = deliveredStatus(m), !.tries = @ + 1,
                              !.held = "no", !.id = mail[m].held = "sent"])
    /\ UNCHANGED suppressed

\* The dispatcher dies, or its transaction does not commit.
DropMail(m) ==
    /\ mail[m].held # "no"
    /\ Set(m, [mail[m] EXCEPT !.held = "no"])
    /\ UNCHANGED suppressed

ExpireMail(m) ==
    /\ mail[m].st = "queued" /\ mail[m].held = "no"
    /\ Set(m, [mail[m] EXCEPT !.st = "expired"])
    /\ UNCHANGED suppressed

\* An event finds its row by the provider's identifier.
authEmailWebhook(m) ==
    /\ mail[m].id /\ mail[m].inbox /\ mail[m].st \notin {"gone", "bounced", "complained"}
    /\ \E s \in {"delivered", "bounced", "complained", "failed"} :
          /\ Set(m, [mail[m] EXCEPT !.st = s])
          /\ suppressed' = suppressed \cup
                IF s \in {"bounced", "complained"} THEN {mail[m].email} ELSE {}

MailStep ==
    /\ May("mail")
    /\ \E m \in DOMAIN mail :
          \/ PickMail(m)
          \/ SendMail(m)
          \/ deliverAuthEmail(m)
          \/ DropMail(m)
          \/ ExpireMail(m)
          \/ authEmailWebhook(m)

=============================================================================
