------------------------------ MODULE Webmail ------------------------------
(***************************************************************************)
(* Writing and sending mail in the browser.  A draft is a row of           *)
(* webmail_drafts.  A submission claims the row with one conditional       *)
(* UPDATE, asks the outbound policy about every recipient, signs the       *)
(* message with the key of its mailbox, checks its own signature, hands    *)
(* the message to Postfix and only then writes down how that ended.  Every *)
(* write may fail: it runs under the context of the browser's request.     *)
(***************************************************************************)
EXTENDS Naturals, Sequences, FiniteSets

CONSTANTS
    Mailbox,     \* authenticated mailboxes
    Configured,  \* the ones the runtime registry has credentials for
    Address,     \* recipients
    Malformed,   \* the ones that exactEnvelopeAddress refuses
    Document,    \* what a browser may send as a draft
    Draft, Request, None

\* A document names its recipients, the fingerprint it wants to be signed
\* with (written as the mailbox whose key it is), and whether it has a Subject
\* and a text free of control characters.
DraftDocument ==
    [to : Address, cc : Seq(Address), bcc : Seq(Address),
     fingerprint : Mailbox \cup {None}, subject : BOOLEAN, clean : BOOLEAN]

DraftRow ==
    [from : Mailbox, doc : DraftDocument,
     state : {"draft", "queued_for_submission", "submitted", "sent", "failed",
              "delivery_uncertain"}]

ASSUME DocumentAssumption == Document \subseteq DraftDocument /\ None \notin DraftRow

VARIABLES
    drafts,    \* webmail_drafts
    requests,  \* where the handler of each HTTP request stands
    keys,      \* mailboxes whose private key file can be used now
    refused,   \* recipients that the outbound policy refuses now
    accepted,  \* the messages Postfix took for each draft (history)
    stranded   \* claimed drafts whose submission could not write its end

vars == <<drafts, requests, keys, refused, accepted, stranded>>

Idle == [stage |-> "idle"]

Editable(d) == drafts[d] # None /\ drafts[d].state \in {"draft", "failed"}

Claimed(d) ==
    drafts[d] # None /\ drafts[d].state \in {"queued_for_submission", "submitted"}

At(q, stage) == requests[q].stage = stage

Goto(q, r) == requests' = [requests EXCEPT ![q] = r]

-----------------------------------------------------------------------------
(* The runtime registry: credentials and keys of the exact mailbox          *)

\* loadRuntimeSigningEntity reads the key file again at every use.
SigningEntity(m) == m \in Configured /\ m \in keys

ResolveSender(fingerprint, from) == SigningEntity(from) /\ fingerprint = from

DefaultIdentity(m) == IF SigningEntity(m) THEN m ELSE None

-----------------------------------------------------------------------------
(* The message                                                              *)

\* Every address once, in the order in which they are named first.
draftRecipients(doc) ==
    LET raw == <<doc.to>> \o doc.cc \o doc.bcc
        first == {i \in DOMAIN raw : \A j \in 1..(i - 1) : raw[j] # raw[i]}
    IN [n \in 1..Cardinality(first) |->
           raw[CHOOSE i \in first : Cardinality({j \in first : j <= i}) = n]]

Deliverable(doc) ==
    \A n \in DOMAIN draftRecipients(doc) : draftRecipients(doc)[n] \notin Malformed

\* The header fields to which BuildMIME gives a value, and the addresses in
\* them.  A Bcc recipient is only in the envelope.
BuildMIME(from, doc) ==
    [from |-> from, to |-> doc.to, cc |-> doc.cc,
     fields |-> {"From", "To", "Date", "Message-ID"}
                \cup (IF doc.cc # <<>> THEN {"Cc"} ELSE {})
                \cup (IF doc.subject THEN {"Subject"} ELSE {})]

\* SignMIME copies these fields to the outer header, those without a value
\* left out.
SignedFields == {"From", "Sender", "Reply-To", "To", "Date", "Message-ID", "Subject"}

SignMIME(identity, m) ==
    [from |-> m.from, to |-> m.to,
     cc |-> IF "Cc" \in SignedFields THEN m.cc ELSE <<>>,
     fields |-> m.fields \cap SignedFields, signer |-> identity]

\* The outer fields without which authoritativeMessageBinding fails.
BindingFields == {"From", "Message-ID", "Date", "Subject"}

VerifyExactSender(m, identity) ==
    /\ SigningEntity(identity)
    /\ BindingFields \subseteq m.fields
    /\ m.from = identity
    /\ m.signer = identity

-----------------------------------------------------------------------------
(* Drafts: POST and PUT /api/v1/webmail/drafts                              *)

\* The document with the fingerprint of the mailbox where it names none.
Completed(box, doc) ==
    IF doc.fingerprint # None THEN doc
    ELSE [doc EXCEPT !.fingerprint = DefaultIdentity(box)]

\* The ID is random, so it is one that no other draft has.
CreateDraft(box, d, doc) ==
    /\ drafts[d] = None
    /\ Completed(box, doc).fingerprint # None
    /\ drafts' = [drafts EXCEPT ![d] =
           [from |-> box, doc |-> Completed(box, doc), state |-> "draft"]]
    /\ UNCHANGED <<requests, keys, refused, accepted, stranded>>

\* Both handlers read the row first and compare its mailbox with the one that
\* the request is authenticated for.
Open(q, box, d, stage) ==
    /\ At(q, "idle")
    /\ drafts[d] # None
    /\ drafts[d].from = box
    /\ stage = "update" => Editable(d)
    /\ Goto(q, [stage |-> stage, id |-> d])
    /\ UNCHANGED <<drafts, keys, refused, accepted, stranded>>

\* UPDATE ... WHERE state IN ('draft','failed'); no row is "no longer editable".
UpdateDraft(q, doc) ==
    LET d == requests[q].id
        new == Completed(drafts[d].from, doc)
    IN /\ At(q, "update")
       /\ drafts' = IF Editable(d) /\ new.fingerprint # None
                    THEN [drafts EXCEPT ![d] =
                             [from |-> drafts[d].from, doc |-> new, state |-> "draft"]]
                    ELSE drafts
       /\ Goto(q, Idle)
       /\ UNCHANGED <<keys, refused, accepted, stranded>>

-----------------------------------------------------------------------------
(* POST /api/v1/webmail/drafts/{id}/submit                                  *)

\* The claimed copy, with a new state, replaces the row.
putDraft(r, state) ==
    drafts' = [drafts EXCEPT ![r.id] = [from |-> r.from, doc |-> r.doc, state |-> state]]

\* The write fails, or is made and its answer lost.
PutLost(r, state) ==
    /\ putDraft(r, state) \/ UNCHANGED drafts
    /\ stranded' = IF drafts'[r.id].state \in {"queued_for_submission", "submitted"}
                   THEN stranded \cup {r.id} ELSE stranded

\* UPDATE ... SET state='queued_for_submission' ... RETURNING.
Claim(q) ==
    LET d == requests[q].id
    IN /\ At(q, "claim")
       /\ \/ /\ ~Editable(d)
             /\ Goto(q, Idle)
             /\ UNCHANGED <<drafts, stranded>>
          \/ /\ Editable(d)
             /\ drafts' = [drafts EXCEPT ![d] =
                    [from |-> drafts[d].from, doc |-> drafts[d].doc,
                     state |-> "queued_for_submission"]]
             /\ \/ /\ Goto(q, [stage |-> "decide", id |-> d, from |-> drafts[d].from,
                               doc |-> drafts[d].doc, approved |-> <<>>])
                   /\ UNCHANGED stranded
                \/ /\ Goto(q, Idle)
                   /\ stranded' = stranded \cup {d}
       /\ UNCHANGED <<keys, refused, accepted>>

\* The state that remains to be written; every failing step goes on with
\* "failed".
Ending(r, state) ==
    [stage |-> "finish", id |-> r.id, from |-> r.from, doc |-> r.doc, state |-> state]

Failing(r) == Ending(r, "failed")

\* The submission goes on with what the policy has allowed so far.
Continuing(r, stage, approved) ==
    [stage |-> stage, id |-> r.id, from |-> r.from, doc |-> r.doc, approved |-> approved]

DecideStranding(q) ==
    LET r == requests[q]
        recipients == draftRecipients(r.doc)
        n == Len(r.approved) + 1
    IN /\ At(q, "decide")
       /\ Goto(q, IF ~Deliverable(r.doc) THEN Idle
                  ELSE IF n > Len(recipients) THEN Continuing(r, "resolve", r.approved)
                  ELSE IF recipients[n] \in refused THEN Failing(r)
                  ELSE Continuing(r, "decide", Append(r.approved, recipients[n])))
       /\ UNCHANGED <<drafts, keys, refused, accepted, stranded>>

\* The recipients in order: the policy is asked about the next one, and the
\* first refusal ends the submission.
Decide(q) ==
    LET r == requests[q]
        recipients == draftRecipients(r.doc)
        n == Len(r.approved) + 1
    IN /\ At(q, "decide")
       /\ Goto(q, IF ~Deliverable(r.doc) THEN Failing(r)
                  ELSE IF n > Len(recipients) THEN Continuing(r, "resolve", r.approved)
                  ELSE IF recipients[n] \in refused THEN Failing(r)
                  ELSE Continuing(r, "decide", Append(r.approved, recipients[n])))
       /\ UNCHANGED <<drafts, keys, refused, accepted, stranded>>

Resolve(q) ==
    LET r == requests[q]
    IN /\ At(q, "resolve")
       /\ Goto(q, IF ResolveSender(r.doc.fingerprint, r.from) /\ r.doc.clean
                  THEN Continuing(r, "sign", r.approved) ELSE Failing(r))
       /\ UNCHANGED <<drafts, keys, refused, accepted, stranded>>

Signed(r, stage, message) ==
    [stage |-> stage, id |-> r.id, from |-> r.from, doc |-> r.doc,
     approved |-> r.approved, message |-> message]

\* SignMIME, then the state "submitted" is written before anything is sent.
Sign(q) ==
    LET r == requests[q]
    IN /\ At(q, "sign")
       /\ \/ /\ ~SigningEntity(r.from)
             /\ Goto(q, Failing(r))
             /\ UNCHANGED <<drafts, stranded>>
          \/ /\ SigningEntity(r.from)
             /\ putDraft(r, "submitted")
             /\ Goto(q, Signed(r, "verify", SignMIME(r.from, BuildMIME(r.from, r.doc))))
             /\ UNCHANGED stranded
          \/ /\ SigningEntity(r.from)
             /\ PutLost(r, "submitted")
             /\ Goto(q, Idle)
       /\ UNCHANGED <<keys, refused, accepted>>

Verify(q) ==
    LET r == requests[q]
    IN /\ At(q, "verify")
       /\ Goto(q, IF VerifyExactSender(r.message, r.from)
                  THEN Signed(r, "smtp", r.message) ELSE Failing(r))
       /\ UNCHANGED <<drafts, keys, refused, accepted, stranded>>

ClassifyRetryable(outcome) == IF outcome = "accepted" THEN "sent" ELSE "failed"

\* What the end of the SMTP dialogue means: the connection lost between the
\* final dot and its answer ("unanswered") is neither a success nor a failure.
Classify(outcome) ==
    IF outcome = "accepted" THEN "sent"
    ELSE IF outcome = "unanswered" THEN "delivery_uncertain"
    ELSE "failed"

\* The envelope has every recipient, those in Bcc too.
Envelope(r) == [from |-> r.from, to |-> draftRecipients(r.doc)]

Transmit(q) ==
    LET r == requests[q]
    IN /\ At(q, "smtp")
       /\ \E outcome \in {"accepted", "refused", "disconnected", "unanswered"} :
             /\ \/ /\ outcome \in {"accepted", "unanswered"}
                   /\ accepted' = [accepted EXCEPT ![r.id] =
                          Append(@, [envelope |-> Envelope(r), doc |-> r.doc,
                                     approved |-> r.approved, message |-> r.message])]
                \/ /\ outcome # "accepted"
                   /\ UNCHANGED accepted
             /\ Goto(q, Ending(r, Classify(outcome)))
       /\ UNCHANGED <<drafts, keys, refused, stranded>>

Finish(q) ==
    LET r == requests[q]
    IN /\ At(q, "finish")
       /\ \/ putDraft(r, r.state) /\ UNCHANGED stranded
          \/ PutLost(r, r.state)
       /\ Goto(q, Idle)
       /\ UNCHANGED <<keys, refused, accepted>>

-----------------------------------------------------------------------------
(* The surroundings                                                         *)

\* A key file is replaced, expires or becomes readable again.
TurnKey(m) ==
    /\ m \in Configured
    /\ keys' = IF m \in keys THEN keys \ {m} ELSE keys \cup {m}
    /\ UNCHANGED <<drafts, requests, refused, accepted, stranded>>

\* The outbound policy or an alias changes.
TurnPolicy(a) ==
    /\ refused' = IF a \in refused THEN refused \ {a} ELSE refused \cup {a}
    /\ UNCHANGED <<drafts, requests, keys, accepted, stranded>>

\* The server stops: nothing finishes the submissions it was working on.
Crash ==
    /\ requests' = [q \in Request |-> Idle]
    /\ stranded' = stranded \cup {d \in Draft : Claimed(d)}
    /\ UNCHANGED <<drafts, keys, refused, accepted>>

-----------------------------------------------------------------------------

Init ==
    /\ drafts = [d \in Draft |-> None]
    /\ requests = [q \in Request |-> Idle]
    /\ keys = Configured
    /\ refused = {}
    /\ accepted = [d \in Draft |-> <<>>]
    /\ stranded = {}

Submission(q) ==
    Claim(q) \/ Decide(q) \/ Resolve(q) \/ Sign(q) \/ Verify(q) \/ Transmit(q) \/ Finish(q)

Next ==
    \/ \E box \in Mailbox, d \in Draft, doc \in Document : CreateDraft(box, d, doc)
    \/ \E q \in Request, box \in Mailbox, d \in Draft, stage \in {"update", "claim"} :
           Open(q, box, d, stage)
    \/ \E q \in Request, doc \in Document : UpdateDraft(q, doc)
    \/ \E q \in Request : Submission(q)
    \/ \E m \in Mailbox : TurnKey(m)
    \/ \E a \in Address \ Malformed : TurnPolicy(a)
    \/ Crash

\* Every handler runs to its end: the database and the SMTP dialogue have
\* deadlines, and nothing in Submit waits for another request.
Spec == Init /\ [][Next]_vars /\ \A q \in Request : WF_vars(Submission(q))

-----------------------------------------------------------------------------
(* Properties                                                               *)

\* At most one message of a draft is ever accepted by Postfix, and the state
\* of the row never invites a second one: a draft that may be edited and sent
\* again was not accepted, and a draft that is "sent" was.  Submit and
\* UpdateDraft race for the row, Submit writes its end after the fact, and
\* every one of its writes may be lost.
NoSecondCopy ==
    \A d \in Draft : drafts[d] # None =>
        /\ Len(accepted[d]) <= 1
        /\ Editable(d) => accepted[d] = <<>>
        /\ drafts[d].state = "sent" => Len(accepted[d]) = 1

\* What Postfix accepted is what the row still holds, from the row's mailbox,
\* signed with that mailbox's key, to every recipient of the row and to no
\* one else.  The submission works on the copy that its claim returned.
SentAsWritten ==
    \A d \in Draft : \A i \in 1..Len(accepted[d]) :
        LET a == accepted[d][i]
        IN /\ a.doc = drafts[d].doc
           /\ a.envelope = [from |-> drafts[d].from, to |-> draftRecipients(drafts[d].doc)]
           /\ a.message.signer = drafts[d].from
           /\ a.message.from = drafts[d].from

\* Every recipient of an accepted message, the hidden ones included, was
\* allowed by the outbound policy in the submission that sent it.
EveryRecipientDecided ==
    \A d \in Draft : \A i \in 1..Len(accepted[d]) :
        accepted[d][i].envelope.to = accepted[d][i].approved

\* A draft is sent once, as it was written, to whom the policy allows.
SentOnceAsWritten == NoSecondCopy /\ SentAsWritten /\ EveryRecipientDecided

\* A claimed draft leaves the claimed states again, unless a write of its
\* submission was lost or the server stopped: Submit never forgets a row.
SubmissionEnds ==
    \A d \in Draft :
        Claimed(d) ~> (~Claimed(d) \/ d \in stranded)
=============================================================================
