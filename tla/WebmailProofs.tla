--------------------------- MODULE WebmailProofs ----------------------------
(***************************************************************************)
(* The inductive invariants of Webmail and MailFolders: a draft is sent    *)
(* once and as it was written, and a reader who pages through a folder     *)
(* loses no message.  For any number of mailboxes, drafts, requests and    *)
(* messages, and any page size.                                            *)
(***************************************************************************)
EXTENDS Webmail, MailFolders, FiniteSetTheorems, TLAPS

-----------------------------------------------------------------------------
(* Writing and sending mail (Webmail)                                       *)

Submitting == {"decide", "resolve", "sign", "verify", "smtp", "finish"}

WebmailType ==
    /\ drafts \in [Draft -> DraftRow \cup {None}]
    /\ requests = [q \in Request |-> requests[q]]
    /\ accepted = [d \in Draft |-> accepted[d]]

SentFor(d, a) ==
    /\ a.doc = drafts[d].doc
    /\ a.envelope = [from |-> drafts[d].from, to |-> draftRecipients(drafts[d].doc)]
    /\ a.message.signer = drafts[d].from
    /\ a.message.from = drafts[d].from
    /\ a.envelope.to = a.approved

RowInv(d) ==
    /\ drafts[d] = None => accepted[d] = <<>>
    /\ Editable(d) => accepted[d] = <<>>
    /\ drafts[d] # None => (drafts[d].state = "sent" => accepted[d] # <<>>)
    /\ accepted[d] # <<>> =>
          accepted[d] = <<accepted[d][1]>> /\ SentFor(d, accepted[d][1])

\* What the policy has allowed so far are the first recipients, in order.
AllowedInv(r) ==
    LET recipients == draftRecipients(r.doc)
    IN /\ r.approved \in Seq({recipients[i] : i \in 1..Len(recipients)})
       /\ Len(r.approved) <= Len(recipients)
       /\ \A i \in 1..Len(r.approved) : r.approved[i] = recipients[i]
       /\ r.stage # "decide" => r.approved = recipients

HandlerInv(r) ==
    /\ r.stage \in {"idle", "update", "claim"} \cup Submitting
    /\ r.stage # "idle" => r.id \in Draft /\ drafts[r.id] # None
    /\ r.stage \in Submitting =>
          /\ Claimed(r.id)
          /\ r.from = drafts[r.id].from
          /\ r.doc = drafts[r.id].doc
    /\ r.stage \in Submitting \ {"finish"} => accepted[r.id] = <<>> /\ AllowedInv(r)
    /\ r.stage \in {"verify", "smtp"} => r.message.signer = r.from /\ r.message.from = r.from
    /\ r.stage = "finish" =>
          /\ r.state \in {"failed", "sent", "delivery_uncertain"}
          /\ r.state = "failed" => accepted[r.id] = <<>>
          /\ r.state = "sent" => accepted[r.id] # <<>>

Submits(r, d) == r.stage \in Submitting /\ r.id = d

WebmailInv ==
    /\ WebmailType
    /\ \A d \in Draft : RowInv(d)
    /\ \A q \in Request : HandlerInv(requests[q])
    /\ \A p, q \in Request, d \in Draft :
          Submits(requests[p], d) /\ Submits(requests[q], d) => p = q

\* The recipients of a document are a sequence.
LEMMA RecipientsAreSequence ==
    ASSUME NEW doc \in DraftDocument
    PROVE  LET recipients == draftRecipients(doc)
           IN /\ Len(recipients) \in Nat
              /\ recipients \in Seq({recipients[i] : i \in 1..Len(recipients)})
<1> DEFINE raw == <<doc.to>> \o doc.cc \o doc.bcc
           first == {i \in DOMAIN raw : \A j \in 1..(i - 1) : raw[j] # raw[i]}
           N == Cardinality(first)
           Nth(n) == raw[CHOOSE i \in first : Cardinality({j \in first : j <= i}) = n]
           recipients == draftRecipients(doc)
<1>1. N \in Nat
  <2>1. raw \in Seq(Address)
    BY DEF DraftDocument
  <2> HIDE DEF raw
  <2>2. DOMAIN raw = 1..Len(raw) /\ Len(raw) \in Nat
    BY <2>1
  <2>3. IsFiniteSet(1..Len(raw))
    BY <2>2, FS_Interval
  <2>4. first \subseteq 1..Len(raw)
    BY <2>2, Zenon
  <2> QED
    BY <2>3, <2>4, FS_Subset, FS_CardinalityType, Zenon
<1>2. recipients = [n \in 1..N |-> Nth(n)]
  BY Zenon DEF draftRecipients
<1> HIDE DEF recipients, N, Nth
<1>3. Len(recipients) = N
  BY <1>1, <1>2
<1> QED
  BY <1>1, <1>2, <1>3 DEF recipients

\* An action that changes one row and one handler keeps the invariant when it
\* keeps it for these two and no other handler submits the row.
LEMMA OneHandler ==
    ASSUME WebmailInv, NEW q \in Request, NEW d \in Draft, NEW r,
           requests' = [requests EXCEPT ![q] = r],
           drafts' \in [Draft -> DraftRow \cup {None}],
           accepted' = [e \in Draft |-> accepted'[e]],
           \A e \in Draft \ {d} : drafts'[e] = drafts[e] /\ accepted'[e] = accepted[e],
           RowInv(d)', HandlerInv(r)',
           drafts[d] # None => drafts'[d] # None,
           r.stage \in Submitting => r.id = d,
           \/ Editable(d)
           \/ Submits(requests[q], d)
           \/ /\ drafts'[d] = drafts[d] /\ accepted'[d] = accepted[d]
              /\ r.stage \notin Submitting
    PROVE  WebmailInv'
<1>1. requests'[q] = r /\ \A p \in Request \ {q} : requests'[p] = requests[p]
  BY Zenon DEF WebmailInv, WebmailType
<1>2. WebmailType'
  BY Zenon DEF WebmailInv, WebmailType
<1>3. \A e \in Draft : RowInv(e)'
  <2> SUFFICES ASSUME NEW e \in Draft \ {d} PROVE RowInv(e)'
    BY Zenon
  <2>1. RowInv(e) /\ drafts'[e] = drafts[e] /\ accepted'[e] = accepted[e]
    BY Zenon DEF WebmailInv
  <2> QED
    BY <2>1, Zenon DEF RowInv, Editable, SentFor
<1>4. \A p \in Request \ {q} :
        drafts'[d] # drafts[d] \/ accepted'[d] # accepted[d] \/ r.stage \in Submitting =>
            ~Submits(requests[p], d)
  BY DEF WebmailInv, HandlerInv, Editable, Claimed, Submits
<1>5. \A p \in Request : HandlerInv(requests[p])'
  <2> SUFFICES ASSUME NEW p \in Request \ {q} PROVE HandlerInv(requests[p])'
    BY <1>1, Zenon
  <2>1. HandlerInv(requests[p]) /\ requests'[p] = requests[p]
    BY <1>1, Zenon DEF WebmailInv
  <2>2. requests[p].stage # "idle" => drafts'[requests[p].id] # None
    BY <2>1, Zenon DEF HandlerInv
  <2>3. requests[p].stage \in Submitting =>
          drafts'[requests[p].id] = drafts[requests[p].id] /\
          accepted'[requests[p].id] = accepted[requests[p].id]
    BY <1>4, <2>1, Zenon DEF HandlerInv, Submits, Submitting
  <2> QED
    BY <2>1, <2>2, <2>3 DEF HandlerInv, AllowedInv, Claimed, Submitting
<1>6. \A p, o \in Request, e \in Draft :
        Submits(requests[p], e)' /\ Submits(requests[o], e)' => p = o
  BY <1>1, <1>4 DEF WebmailInv, Submits
<1> QED
  BY <1>2, <1>3, <1>5, <1>6, Zenon DEF WebmailInv

\* A stored draft is a document with its sender filled in.
LEMMA CompletedIsDocument ==
    ASSUME NEW box \in Mailbox, NEW doc \in Document
    PROVE  Completed(box, doc) \in DraftDocument
<1>1. doc \in DraftDocument /\ DefaultIdentity(box) \in Mailbox \cup {None}
  BY DocumentAssumption, Zenon DEF DefaultIdentity
<1> DEFINE m == DefaultIdentity(box)
<1> HIDE DEF m
<1>2. [doc EXCEPT !.fingerprint = m] \in DraftDocument
  BY <1>1, Zenon DEF DraftDocument, m
<1> QED
  BY <1>1, <1>2, Zenon DEF Completed, m

\* Creating, opening and updating a draft keep the invariant.
LEMMA DraftsStep ==
    ASSUME WebmailInv,
           \/ \E box \in Mailbox, d \in Draft, doc \in Document : CreateDraft(box, d, doc)
           \/ \E q \in Request, box \in Mailbox, d \in Draft, stage \in {"update", "claim"} :
                  Open(q, box, d, stage)
           \/ \E q \in Request, doc \in Document : UpdateDraft(q, doc)
    PROVE  WebmailInv'
<1>1. ASSUME NEW box \in Mailbox, NEW d \in Draft, NEW doc \in Document,
             CreateDraft(box, d, doc)
      PROVE  WebmailInv'
  <2> DEFINE row == [from |-> box, doc |-> Completed(box, doc), state |-> "draft"]
  <2>1. row \in DraftRow /\ row # None /\ row.state = "draft"
    BY CompletedIsDocument, DocumentAssumption DEF DraftRow
  <2>2. drafts' = [drafts EXCEPT ![d] = row] /\ UNCHANGED <<requests, accepted>>
        /\ drafts[d] = None
    BY <1>1, Zenon DEF CreateDraft
  <2> HIDE DEF row
  <2>3. drafts'[d] = row /\ \A e \in Draft \ {d} : drafts'[e] = drafts[e]
    BY <2>2, Zenon DEF WebmailInv, WebmailType
  <2>4. WebmailType'
    BY <2>1, <2>2, Zenon DEF WebmailInv, WebmailType
  <2>5. ASSUME NEW e \in Draft PROVE RowInv(e)'
    <3>1. RowInv(e)
      BY Zenon DEF WebmailInv
    <3> QED
      BY <2>1, <2>2, <2>3, <3>1, Zenon DEF RowInv, Editable, SentFor
  <2>6. ASSUME NEW q \in Request PROVE HandlerInv(requests[q])'
    <3>1. HandlerInv(requests[q])
      BY Zenon DEF WebmailInv
    <3>2. requests[q].stage # "idle" => requests[q].id \in Draft \ {d}
      BY <2>2, <3>1, Zenon DEF HandlerInv
    <3> QED
      BY <2>2, <2>3, <3>1, <3>2 DEF HandlerInv, AllowedInv, Claimed, Submitting
  <2> QED
    BY <2>2, <2>4, <2>5, <2>6, Zenon DEF WebmailInv, Submits
<1>2. ASSUME NEW q \in Request, NEW box \in Mailbox, NEW d \in Draft,
             NEW stage \in {"update", "claim"}, Open(q, box, d, stage)
      PROVE  WebmailInv'
  <2> DEFINE r == [stage |-> stage, id |-> d]
  <2>1. /\ requests' = [requests EXCEPT ![q] = r] /\ UNCHANGED <<drafts, accepted>>
        /\ drafts[d] # None
    BY <1>2, Zenon DEF Open, Goto
  <2>2. r.stage = stage /\ r.id = d
    BY Zenon
  <2> HIDE DEF r
  <2>3. RowInv(d)' /\ HandlerInv(r)'
    BY <2>1, <2>2, Zenon DEF WebmailInv, RowInv, Editable, SentFor, HandlerInv, Submitting
  <2> QED
    BY <2>1, <2>2, <2>3, OneHandler, Zenon DEF WebmailInv, WebmailType, Submitting
<1>3. ASSUME NEW q \in Request, NEW doc \in Document, UpdateDraft(q, doc)
      PROVE  WebmailInv'
  <2> DEFINE r == Idle
  <2>0. r.stage = "idle"
    BY Zenon DEF Idle
  <2> HIDE DEF r
  <2>1. PICK d : d = requests[q].id
    BY Zenon
  <2>2. PICK new : new = Completed(drafts[d].from, doc)
    BY Zenon
  <2>3. d \in Draft /\ drafts[d] # None /\ drafts[d] \in DraftRow /\ RowInv(d)
    BY <1>3, <2>1, Zenon DEF UpdateDraft, At, WebmailInv, WebmailType, HandlerInv
  <2>4. new \in DraftDocument
    BY <2>2, <2>3, CompletedIsDocument, Zenon DEF DraftRow
  <2> DEFINE row == [from |-> drafts[d].from, doc |-> new, state |-> "draft"]
  <2>5. row \in DraftRow /\ row # None /\ row.state = "draft"
    BY <2>3, <2>4, DocumentAssumption DEF DraftRow
  <2> HIDE DEF row
  <2>6. /\ requests' = [requests EXCEPT ![q] = r] /\ UNCHANGED accepted
        /\ \/ Editable(d) /\ drafts' = [drafts EXCEPT ![d] = row]
           \/ UNCHANGED drafts
    BY <1>3, <2>1, <2>2, Zenon DEF UpdateDraft, Goto, r, row
  <2>7. HandlerInv(r)'
    BY <2>0, Zenon DEF HandlerInv, Submitting
  <2>8. CASE Editable(d) /\ drafts' = [drafts EXCEPT ![d] = row]
    <3>1. drafts'[d] = row /\ (\A e \in Draft \ {d} : drafts'[e] = drafts[e])
          /\ drafts' \in [Draft -> DraftRow \cup {None}]
      BY <2>3, <2>5, <2>8, Zenon DEF WebmailInv, WebmailType
    <3>2. RowInv(d)'
      BY <2>3, <2>5, <2>6, <2>8, <3>1, Zenon DEF RowInv
    <3> QED
      BY <2>0, <2>3, <2>5, <2>6, <2>7, <2>8, <3>1, <3>2, OneHandler, Zenon
      DEF WebmailInv, WebmailType, Submitting
  <2>9. CASE UNCHANGED drafts
    <3>1. RowInv(d)'
      BY <2>3, <2>6, <2>9, Zenon DEF RowInv, Editable, SentFor
    <3> QED
      BY <2>0, <2>3, <2>6, <2>7, <2>9, <3>1, OneHandler, Zenon
      DEF WebmailInv, WebmailType, Submitting
  <2> QED
    BY <2>6, <2>8, <2>9, Zenon
<1> QED
  BY <1>1, <1>2, <1>3, Zenon

\* A step of a submission that only moves on, to its next stage or to its end.
LEMMA MovesOn ==
    ASSUME WebmailInv, NEW q \in Request, NEW d \in Draft, NEW r,
           Submits(requests[q], d), Submits(r, d), HandlerInv(r),
           requests' = [requests EXCEPT ![q] = r], UNCHANGED <<drafts, accepted>>
    PROVE  WebmailInv'
<1>1. HandlerInv(r)' /\ RowInv(d)'
  BY Zenon DEF WebmailInv, HandlerInv, AllowedInv, Claimed, RowInv, Editable, SentFor
<1> QED
  BY <1>1, OneHandler DEF WebmailInv, WebmailType, Submits

\* A step that fails keeps the row for Finish to write.
LEMMA FailingInv ==
    ASSUME WebmailInv, NEW q \in Request, NEW d \in Draft, Submits(requests[q], d),
           requests[q].stage # "finish"
    PROVE  Submits(Failing(requests[q]), d) /\ HandlerInv(Failing(requests[q]))
<1>1. HandlerInv(requests[q])
  BY Zenon DEF WebmailInv
<1>2. LET r == Failing(requests[q])
      IN /\ r.stage = "finish" /\ r.id = requests[q].id /\ r.from = requests[q].from
         /\ r.doc = requests[q].doc /\ r.state = "failed"
  BY Zenon DEF Failing, Ending
<1> QED
  BY <1>1, <1>2, Zenon DEF HandlerInv, Submits, Submitting

\* Claiming a draft keeps the invariant.
LEMMA ClaimStep ==
    ASSUME WebmailInv, NEW q \in Request, Claim(q)
    PROVE  WebmailInv'
<1>1. PICK d : d = requests[q].id
  BY Zenon
<1>2. d \in Draft /\ drafts[d] # None /\ drafts[d] \in DraftRow /\ RowInv(d)
  BY <1>1, Zenon DEF Claim, At, WebmailInv, WebmailType, HandlerInv
<1> DEFINE row == [from |-> drafts[d].from, doc |-> drafts[d].doc,
                   state |-> "queued_for_submission"]
           i == Idle
<1>0. PICK r : r = [stage |-> "decide", id |-> d, from |-> drafts[d].from,
                    doc |-> drafts[d].doc, approved |-> <<>>]
  BY Zenon
<1>3. /\ row \in DraftRow /\ row # None /\ row.state = "queued_for_submission"
      /\ row.from = drafts[d].from /\ row.doc = drafts[d].doc
  BY <1>2, DocumentAssumption DEF DraftRow
<1>4. /\ r.stage = "decide" /\ r.id = d /\ r.from = drafts[d].from
      /\ r.doc = drafts[d].doc /\ r.approved = <<>>
  BY <1>0, Zenon
<1>5. i.stage = "idle"
  BY Zenon DEF Idle
<1>6. /\ UNCHANGED accepted
      /\ \/ UNCHANGED drafts /\ requests' = [requests EXCEPT ![q] = i]
         \/ /\ Editable(d) /\ drafts' = [drafts EXCEPT ![d] = row]
            /\ \/ requests' = [requests EXCEPT ![q] = r]
               \/ requests' = [requests EXCEPT ![q] = i]
  BY <1>0, <1>1, Zenon DEF Claim, Goto
<1> HIDE DEF row, i
<1>7. HandlerInv(i)'
  BY <1>5, Zenon DEF HandlerInv, Submitting
<1>8. CASE UNCHANGED drafts /\ requests' = [requests EXCEPT ![q] = i]
  <2>1. RowInv(d)'
    BY <1>2, <1>6, <1>8, Zenon DEF RowInv, Editable, SentFor
  <2> QED
    BY <1>2, <1>5, <1>6, <1>7, <1>8, <2>1, OneHandler, Zenon DEF WebmailInv, WebmailType, Submitting
<1>9. CASE Editable(d) /\ drafts' = [drafts EXCEPT ![d] = row]
  <2>1. drafts'[d] = row /\ (\A e \in Draft \ {d} : drafts'[e] = drafts[e])
        /\ drafts' \in [Draft -> DraftRow \cup {None}]
    BY <1>2, <1>3, <1>9, Zenon DEF WebmailInv, WebmailType
  <2>2. RowInv(d)' /\ accepted'[d] = <<>>
    BY <1>2, <1>3, <1>6, <1>9, <2>1, Zenon DEF RowInv, Editable
  <2>3. CASE requests' = [requests EXCEPT ![q] = r]
    <3>1. drafts[d].doc \in DraftDocument
      BY <1>2, Zenon DEF DraftRow
    <3>2. AllowedInv(r)
      BY <1>4, <3>1, RecipientsAreSequence DEF AllowedInv
    <3>3. Claimed(d)' /\ AllowedInv(r)'
      BY <1>3, <2>1, <3>2, Zenon DEF Claimed, AllowedInv
    <3>4. HandlerInv(r)'
      BY <1>2, <1>3, <1>4, <2>1, <2>2, <3>3, Zenon DEF HandlerInv, Submitting
    <3> QED
      BY <1>2, <1>3, <1>4, <1>6, <1>9, <2>1, <2>2, <2>3, <3>4, OneHandler
      DEF WebmailInv, WebmailType, Submitting
  <2>4. CASE requests' = [requests EXCEPT ![q] = i]
    BY <1>2, <1>3, <1>5, <1>6, <1>7, <1>9, <2>1, <2>2, <2>4, OneHandler, Zenon
    DEF WebmailInv, WebmailType, Submitting
  <2> QED
    BY <1>6, <1>9, <2>3, <2>4, <1>8, Zenon
<1> QED
  BY <1>6, <1>8, <1>9, Zenon

\* The policy decision on a claimed draft keeps the invariant.
LEMMA DecideStep ==
    ASSUME WebmailInv, NEW q \in Request, Decide(q)
    PROVE  WebmailInv'
<1>1. PICK r : r = requests[q]
  BY Zenon
<1>2. PICK d : d = r.id
  BY Zenon
<1>3. PICK recipients : recipients = draftRecipients(r.doc)
  BY Zenon
<1>4. r.stage = "decide" /\ HandlerInv(r) /\ Submits(r, d) /\ d \in Draft
  BY <1>1, <1>2, Zenon DEF Decide, At, WebmailInv, HandlerInv, Submits, Submitting
<1>5. /\ r.approved \in Seq({recipients[i] : i \in 1..Len(recipients)})
      /\ Len(r.approved) <= Len(recipients)
      /\ \A i \in 1..Len(r.approved) : r.approved[i] = recipients[i]
  BY <1>3, <1>4, Zenon DEF HandlerInv, AllowedInv, Submitting
<1>6. r.doc \in DraftDocument
  BY <1>2, <1>4 DEF HandlerInv, WebmailInv, WebmailType, DraftRow, Submits
<1>7. Len(recipients) \in Nat /\ recipients \in Seq({recipients[i] : i \in 1..Len(recipients)})
  BY <1>3, <1>6, RecipientsAreSequence, Zenon
<1> DEFINE n == Len(r.approved) + 1
           a == Append(r.approved, recipients[n])
           done == Continuing(r, "resolve", r.approved)
           more == Continuing(r, "decide", a)
<1>8. /\ UNCHANGED <<drafts, accepted>>
      /\ \/ requests' = [requests EXCEPT ![q] = Failing(r)]
         \/ n > Len(recipients) /\ requests' = [requests EXCEPT ![q] = done]
         \/ ~(n > Len(recipients)) /\ requests' = [requests EXCEPT ![q] = more]
  BY <1>1, <1>3, Zenon DEF Decide, Goto
<1>9. /\ done.stage = "resolve" /\ done.id = r.id /\ done.from = r.from /\ done.doc = r.doc
      /\ done.approved = r.approved
      /\ more.stage = "decide" /\ more.id = r.id /\ more.from = r.from /\ more.doc = r.doc
      /\ more.approved = a
  BY Zenon DEF Continuing
<1> HIDE DEF done, more
<1>10. CASE requests' = [requests EXCEPT ![q] = Failing(r)]
  BY <1>1, <1>4, <1>8, <1>10, FailingInv, MovesOn, Zenon
<1>11. CASE n > Len(recipients) /\ requests' = [requests EXCEPT ![q] = done]
  <2>1. Len(r.approved) = Len(recipients) /\ Len(r.approved) \in Nat
    BY <1>5, <1>7, <1>11
  <2>2. r.approved = recipients
    <3> DEFINE S == {recipients[i] : i \in 1..Len(recipients)}
    <3>1. r.approved \in Seq(S) /\ recipients \in Seq(S)
      BY <1>5, <1>7, Zenon
    <3> HIDE DEF S
    <3>2. r.approved \in [1..Len(recipients) -> S] /\ recipients \in [1..Len(recipients) -> S]
      BY <2>1, <3>1
    <3>3. \A i \in 1..Len(recipients) : r.approved[i] = recipients[i]
      BY <1>5, <2>1, Zenon
    <3> QED
      BY <3>2, <3>3
  <2>3. AllowedInv(done)
    BY <1>3, <1>5, <1>9, <2>2, Zenon DEF AllowedInv
  <2>4. HandlerInv(done) /\ Submits(done, d)
    BY <1>4, <1>9, <2>3, Zenon DEF HandlerInv, Submits, Submitting
  <2> QED
    BY <1>1, <1>4, <1>8, <1>11, <2>4, MovesOn, Zenon
<1>12. CASE ~(n > Len(recipients)) /\ requests' = [requests EXCEPT ![q] = more]
  <2>1. n \in 1..Len(recipients)
    BY <1>5, <1>7, <1>12
  <2>2. /\ a \in Seq({recipients[i] : i \in 1..Len(recipients)})
        /\ Len(a) = n /\ a[n] = recipients[n]
        /\ \A i \in 1..Len(r.approved) : a[i] = r.approved[i]
    BY <1>5, <2>1
  <2> HIDE DEF a
  <2>3. ASSUME NEW i \in 1..Len(a) PROVE a[i] = recipients[i]
    <3>1. i = n \/ i \in 1..Len(r.approved)
      BY <1>5, <2>2, <2>3
    <3> QED
      BY <1>5, <2>2, <3>1, Zenon
  <2>4. AllowedInv(more)
    BY <1>3, <1>7, <1>9, <2>1, <2>2, <2>3 DEF AllowedInv
  <2>5. HandlerInv(more) /\ Submits(more, d)
    BY <1>4, <1>9, <2>4, Zenon DEF HandlerInv, Submits, Submitting
  <2> QED
    BY <1>1, <1>4, <1>8, <1>12, <2>5, MovesOn, Zenon
<1> QED
  BY <1>8, <1>10, <1>11, <1>12, Zenon

\* Resolving the sender's key and verifying the signed message keep the invariant.
LEMMA ResolveVerifyStep ==
    ASSUME WebmailInv, NEW q \in Request, Resolve(q) \/ Verify(q)
    PROVE  WebmailInv'
<1>1. PICK r : r = requests[q]
  BY Zenon
<1>2. PICK d : d = r.id
  BY Zenon
<1>3. r.stage \in {"resolve", "verify"} /\ HandlerInv(r) /\ Submits(r, d) /\ d \in Draft
  BY <1>1, <1>2, Zenon DEF Resolve, Verify, At, WebmailInv, HandlerInv, Submits, Submitting
<1> DEFINE next == Continuing(r, "sign", r.approved)
           sent == Signed(r, "smtp", r.message)
<1>4. /\ UNCHANGED <<drafts, accepted>>
      /\ \/ requests' = [requests EXCEPT ![q] = Failing(r)]
         \/ r.stage = "resolve" /\ requests' = [requests EXCEPT ![q] = next]
         \/ r.stage = "verify" /\ requests' = [requests EXCEPT ![q] = sent]
  BY <1>1, Zenon DEF Resolve, Verify, Goto, At
<1>5. /\ next.stage = "sign" /\ next.id = r.id /\ next.from = r.from /\ next.doc = r.doc
      /\ next.approved = r.approved
      /\ sent.stage = "smtp" /\ sent.id = r.id /\ sent.from = r.from /\ sent.doc = r.doc
      /\ sent.approved = r.approved /\ sent.message = r.message
  BY Zenon DEF Continuing, Signed
<1> HIDE DEF next, sent
<1>6. AllowedInv(next) /\ AllowedInv(sent)
  BY <1>3, <1>5 DEF HandlerInv, AllowedInv, Submitting
<1>7. HandlerInv(next) /\ Submits(next, d)
  BY <1>3, <1>5, <1>6, Zenon DEF HandlerInv, Submits, Submitting
<1>8. r.stage = "verify" => HandlerInv(sent) /\ Submits(sent, d)
  BY <1>3, <1>5, <1>6, Zenon DEF HandlerInv, Submits, Submitting
<1>9. CASE requests' = [requests EXCEPT ![q] = Failing(r)]
  BY <1>1, <1>3, <1>4, <1>9, FailingInv, MovesOn, Zenon
<1> QED
  BY <1>1, <1>3, <1>4, <1>7, <1>8, <1>9, MovesOn, Zenon

\* A submission writes its row, or finds that it could not, and goes on as r.
LEMMA Writes ==
    ASSUME WebmailInv, NEW q \in Request, NEW d \in Draft, NEW r, NEW row \in DraftRow,
           Submits(requests[q], d), r.stage \in Submitting => r.id = d,
           row.from = drafts[d].from, row.doc = drafts[d].doc,
           row.state \in {"draft", "failed"} => accepted[d] = <<>>,
           row.state = "sent" => accepted[d] # <<>>,
           requests' = [requests EXCEPT ![q] = r], UNCHANGED accepted,
           \/ drafts' = [drafts EXCEPT ![d] = row] /\ HandlerInv(r)'
           \/ drafts' = drafts /\ r.stage = "idle"
    PROVE  WebmailInv'
<1>1. row # None /\ RowInv(d)
  BY DocumentAssumption, Zenon DEF WebmailInv
<1>2. CASE drafts' = [drafts EXCEPT ![d] = row] /\ HandlerInv(r)'
  <2>1. drafts'[d] = row /\ (\A e \in Draft \ {d} : drafts'[e] = drafts[e])
        /\ drafts' \in [Draft -> DraftRow \cup {None}]
    BY <1>1, <1>2, Zenon DEF WebmailInv, WebmailType
  <2>2. RowInv(d)'
    BY <1>1, <2>1, Zenon DEF RowInv, Editable, SentFor
  <2> QED
    BY <1>1, <1>2, <2>1, <2>2, OneHandler, SMTT(20) DEF WebmailInv, WebmailType
<1>3. CASE drafts' = drafts /\ r.stage = "idle"
  <2>1. RowInv(d)' /\ HandlerInv(r)'
    BY <1>1, <1>3, Zenon DEF RowInv, Editable, SentFor, HandlerInv, Submitting
  <2> QED
    BY <1>1, <1>3, <2>1, OneHandler DEF WebmailInv, WebmailType
<1> QED
  BY <1>2, <1>3, Zenon

\* Assembling and signing the message keep the invariant.
LEMMA SignStep ==
    ASSUME WebmailInv, NEW q \in Request, Sign(q)
    PROVE  WebmailInv'
<1>1. PICK r : r = requests[q]
  OBVIOUS
<1>2. PICK d : d = r.id
  OBVIOUS
<1>3. r.stage = "sign" /\ HandlerInv(r) /\ Submits(r, d) /\ d \in Draft
  BY <1>1, <1>2, Zenon DEF Sign, At, WebmailInv, HandlerInv, Submits, Submitting
<1>4. /\ drafts[d] \in DraftRow /\ r.from = drafts[d].from /\ r.doc = drafts[d].doc
      /\ accepted[d] = <<>>
  BY <1>2, <1>3 DEF WebmailInv, WebmailType, HandlerInv, Submitting, Claimed
<1>5. PICK message : message = SignMIME(r.from, BuildMIME(r.from, r.doc))
  BY Zenon
<1>6. message.signer = r.from /\ message.from = r.from
  BY <1>5, Zenon DEF SignMIME, BuildMIME
<1> DEFINE row == [from |-> r.from, doc |-> r.doc, state |-> "submitted"]
           next == Signed(r, "verify", message)
           i == Idle
<1>7. /\ row \in DraftRow /\ row # None /\ row.from = r.from /\ row.doc = r.doc
      /\ row.state = "submitted"
  BY <1>4, DocumentAssumption DEF DraftRow
<1>8. /\ next.stage = "verify" /\ next.id = r.id /\ next.from = r.from /\ next.doc = r.doc
      /\ next.approved = r.approved /\ next.message = message
  BY Zenon DEF Signed
<1>9. i.stage = "idle"
  BY DEF Idle
<1>10. /\ UNCHANGED accepted
       /\ \/ UNCHANGED drafts /\ requests' = [requests EXCEPT ![q] = Failing(r)]
          \/ /\ drafts' = [drafts EXCEPT ![d] = row]
             /\ requests' = [requests EXCEPT ![q] = next]
          \/ /\ drafts' = [drafts EXCEPT ![d] = row] \/ drafts' = drafts
             /\ requests' = [requests EXCEPT ![q] = i]
  BY <1>1, <1>2, <1>5, Zenon DEF Sign, Goto, putDraft, PutLost
<1> HIDE DEF row, next, i
<1>11. CASE UNCHANGED drafts /\ requests' = [requests EXCEPT ![q] = Failing(r)]
  BY <1>1, <1>3, <1>10, <1>11, FailingInv, MovesOn, Zenon
<1>12. CASE drafts' = [drafts EXCEPT ![d] = row] /\ requests' = [requests EXCEPT ![q] = next]
  <2>1. drafts'[d] = row
    BY <1>3, <1>12, Zenon DEF WebmailInv, WebmailType
  <2>2. AllowedInv(next)
    BY <1>3, <1>8 DEF HandlerInv, AllowedInv, Submitting
  <2>3. HandlerInv(next)'
    <3>1. next.stage = "verify" /\ next.id \in Draft /\ drafts'[next.id] # None
      BY <1>2, <1>3, <1>7, <1>8, <2>1, Zenon
    <3>2. Claimed(next.id)' /\ next.from = drafts'[next.id].from
          /\ next.doc = drafts'[next.id].doc /\ accepted'[next.id] = <<>>
      BY <1>2, <1>4, <1>7, <1>8, <1>10, <2>1, Zenon DEF Claimed
    <3> QED
      BY <1>6, <1>8, <2>2, <3>1, <3>2, Zenon DEF HandlerInv, AllowedInv, Submitting
  <2>4. /\ Submits(requests[q], d) /\ next.id = d
        /\ row.from = drafts[d].from /\ row.doc = drafts[d].doc
        /\ row.state \notin {"draft", "failed", "sent"}
    BY <1>1, <1>2, <1>3, <1>4, <1>7, <1>8, Zenon
  <2> QED
    BY <1>3, <1>7, <1>10, <1>12, <2>3, <2>4, Writes, Zenon
<1>13. CASE /\ drafts' = [drafts EXCEPT ![d] = row] \/ drafts' = drafts
            /\ requests' = [requests EXCEPT ![q] = i]
  <2>1. HandlerInv(i)'
    BY <1>9 DEF HandlerInv, Submitting
  <2> QED
    BY <1>1, <1>3, <1>4, <1>7, <1>9, <1>10, <1>13, <2>1, Writes, Zenon DEF Submitting
<1> QED
  BY <1>10, <1>11, <1>12, <1>13, Zenon

\* Recording the outcome keeps the invariant.
LEMMA FinishStep ==
    ASSUME WebmailInv, NEW q \in Request, Finish(q)
    PROVE  WebmailInv'
<1>1. PICK r : r = requests[q]
  OBVIOUS
<1>2. PICK d : d = r.id
  OBVIOUS
<1>3. r.stage = "finish" /\ HandlerInv(r) /\ Submits(r, d) /\ d \in Draft
  BY <1>1, <1>2, Zenon DEF Finish, At, WebmailInv, HandlerInv, Submits, Submitting
<1>4. /\ drafts[d] \in DraftRow /\ r.from = drafts[d].from /\ r.doc = drafts[d].doc
      /\ r.state \in {"failed", "sent", "delivery_uncertain"}
      /\ r.state = "failed" => accepted[d] = <<>>
      /\ r.state = "sent" => accepted[d] # <<>>
  BY <1>2, <1>3 DEF WebmailInv, WebmailType, HandlerInv, Submitting, Claimed
<1> DEFINE row == [from |-> r.from, doc |-> r.doc, state |-> r.state]
           i == Idle
<1>5. row \in DraftRow /\ row.from = r.from /\ row.doc = r.doc /\ row.state = r.state
  BY <1>4, Zenon DEF DraftRow
<1>6. i.stage = "idle"
  BY DEF Idle
<1>7. /\ UNCHANGED accepted
      /\ drafts' = [drafts EXCEPT ![d] = row] \/ drafts' = drafts
      /\ requests' = [requests EXCEPT ![q] = i]
  BY <1>1, <1>2, Zenon DEF Finish, Goto, putDraft, PutLost
<1> HIDE DEF row, i
<1>8. HandlerInv(i)'
  BY <1>6 DEF HandlerInv, Submitting
<1> QED
  BY <1>1, <1>3, <1>4, <1>5, <1>6, <1>7, <1>8, Writes, Zenon DEF Submitting

\* The SMTP conversation keeps the invariant, however it ends.
LEMMA TransmitStep ==
    ASSUME WebmailInv, NEW q \in Request, Transmit(q)
    PROVE  WebmailInv'
<1>1. PICK r : r = requests[q]
  OBVIOUS
<1>2. PICK d : d = r.id
  OBVIOUS
<1>3. r.stage = "smtp" /\ HandlerInv(r) /\ Submits(r, d) /\ d \in Draft
  BY <1>1, <1>2, Zenon DEF Transmit, At, WebmailInv, HandlerInv, Submits, Submitting
<1>4. /\ drafts[d] # None /\ r.from = drafts[d].from /\ r.doc = drafts[d].doc
      /\ accepted[d] = <<>> /\ Claimed(d)
      /\ r.approved = draftRecipients(r.doc)
      /\ r.message.signer = r.from /\ r.message.from = r.from
  BY <1>2, <1>3, Zenon DEF HandlerInv, AllowedInv, Submitting
<1> DEFINE a == [envelope |-> Envelope(r), doc |-> r.doc, approved |-> r.approved,
                 message |-> r.message]
<1>5. PICK outcome \in {"accepted", "refused", "disconnected", "unanswered"} :
        /\ UNCHANGED drafts
        /\ \/ /\ outcome \in {"accepted", "unanswered"}
              /\ accepted' = [accepted EXCEPT ![d] = Append(accepted[d], a)]
           \/ outcome # "accepted" /\ UNCHANGED accepted
        /\ requests' = [requests EXCEPT ![q] = Ending(r, Classify(outcome))]
  BY <1>1, <1>2, Zenon DEF Transmit, Goto
<1>6. /\ a.doc = r.doc /\ a.envelope = [from |-> r.from, to |-> draftRecipients(r.doc)]
      /\ a.approved = r.approved /\ a.message = r.message
      /\ a.envelope.to = draftRecipients(r.doc)
  BY Zenon DEF Envelope
<1> HIDE DEF a
<1>7. PICK end : end = Ending(r, Classify(outcome))
  BY Zenon
<1>8. /\ end.stage = "finish" /\ end.id = d /\ end.from = r.from /\ end.doc = r.doc
      /\ end.state = Classify(outcome)
  BY <1>2, <1>7, Zenon DEF Ending
<1>9. \/ UNCHANGED accepted /\ end.state \in {"failed", "delivery_uncertain"}
      \/ /\ accepted' = [accepted EXCEPT ![d] = <<a>>]
         /\ end.state \in {"sent", "delivery_uncertain"}
  BY <1>4, <1>5, <1>8 DEF Classify
<1>10. /\ accepted' = [e \in Draft |-> accepted'[e]]
       /\ \A e \in Draft \ {d} : accepted'[e] = accepted[e]
       /\ \/ accepted'[d] = <<>> /\ end.state \in {"failed", "delivery_uncertain"}
          \/ accepted'[d] = <<a>> /\ end.state \in {"sent", "delivery_uncertain"}
  BY <1>3, <1>4, <1>9, Zenon DEF WebmailInv, WebmailType
<1>11. <<a>> # <<>> /\ <<a>>[1] = a
  BY Zenon
<1>12. SentFor(d, a)'
  BY <1>4, <1>5, <1>6, Zenon DEF SentFor
<1>13. RowInv(d)'
  BY <1>4, <1>5, <1>10, <1>11, <1>12, Zenon DEF RowInv, Editable, Claimed
<1>14. HandlerInv(end)'
  BY <1>3, <1>4, <1>5, <1>8, <1>10, <1>11, Zenon DEF HandlerInv, Claimed, Submitting
<1> QED
  BY <1>1, <1>3, <1>4, <1>5, <1>7, <1>8, <1>10, <1>13, <1>14, OneHandler, Zenon
  DEF WebmailInv, WebmailType, Submitting

\* The rows, the copies that submissions work on and what Postfix took always
\* fit together.
THEOREM WebmailInvariant == Spec => []WebmailInv
<1>1. Init => WebmailInv
  <2> SUFFICES ASSUME Init PROVE WebmailInv
    BY Zenon
  <2>1. \A d \in Draft : drafts[d] = None /\ accepted[d] = <<>>
    BY Zenon DEF Init
  <2>2. \A q \in Request : requests[q].stage = "idle"
    BY Zenon DEF Init, Idle
  <2>3. WebmailType
    BY Zenon DEF Init, WebmailType
  <2> QED
    BY <2>1, <2>2, <2>3, Zenon DEF WebmailInv, RowInv, Editable, HandlerInv, Submits, Submitting
<1>2. WebmailInv /\ [Next]_vars => WebmailInv'
  <2> SUFFICES ASSUME WebmailInv, [Next]_vars PROVE WebmailInv'
    BY Zenon
  <2>1. CASE Crash
    <3>1. /\ UNCHANGED <<drafts, accepted>> /\ requests' = [q \in Request |-> Idle]
          /\ \A q \in Request : requests'[q].stage = "idle"
      BY <2>1, Zenon DEF Crash, Idle
    <3>2. WebmailType'
      BY <3>1, Zenon DEF WebmailInv, WebmailType
    <3>3. \A d \in Draft : RowInv(d)'
      BY <3>1, Zenon DEF WebmailInv, RowInv, Editable, SentFor
    <3> QED
      BY <3>1, <3>2, <3>3, Zenon DEF WebmailInv, HandlerInv, Submits, Submitting
  <2>2. CASE UNCHANGED <<drafts, requests, accepted>>
    <3>1. WebmailType' /\ \A d \in Draft : RowInv(d)'
      BY <2>2, Zenon DEF WebmailInv, WebmailType, RowInv, Editable, SentFor
    <3>2. ASSUME NEW q \in Request PROVE HandlerInv(requests[q])'
      <4>1. HandlerInv(requests[q])
        BY Zenon DEF WebmailInv
      <4>2. AllowedInv(requests[q])' = AllowedInv(requests[q])
        BY <2>2, Zenon DEF AllowedInv
      <4> QED
        BY <2>2, <4>1, <4>2, Zenon DEF HandlerInv, Claimed
    <3>3. \A p, q \in Request, d \in Draft :
            Submits(requests[p], d)' /\ Submits(requests[q], d)' => p = q
      BY <2>2, Zenon DEF WebmailInv, Submits
    <3> QED
      BY <3>1, <3>2, <3>3, Zenon DEF WebmailInv
  <2>3. ASSUME NEW m \in Mailbox, TurnKey(m) PROVE UNCHANGED <<drafts, requests, accepted>>
    BY <2>3, Zenon DEF TurnKey
  <2>4. ASSUME NEW a \in Address, TurnPolicy(a) PROVE UNCHANGED <<drafts, requests, accepted>>
    BY <2>4, Zenon DEF TurnPolicy
  <2>5. ASSUME NEW q \in Request, Submission(q) PROVE WebmailInv'
    BY <2>5, ClaimStep, DecideStep, ResolveVerifyStep, SignStep, TransmitStep, FinishStep, Zenon
    DEF Submission
  <2>6. CASE UNCHANGED vars
    BY <2>2, <2>6, Zenon DEF vars
  <2> QED
    BY <2>1, <2>2, <2>3, <2>4, <2>5, <2>6, DraftsStep, Zenon DEF Next
<1> QED
  BY <1>1, <1>2, PTL DEF Spec

\* However edits, submissions, lost writes and restarts interleave, a draft is
\* accepted by Postfix at most once, as its row still has it, for exactly the
\* recipients that the policy allowed (Sender.Submit).
THEOREM DraftsAreSentOnceAsWritten == Spec => []SentOnceAsWritten
<1>1. WebmailInv => SentOnceAsWritten
  <2> SUFFICES ASSUME WebmailInv, NEW d \in Draft
               PROVE  /\ drafts[d] # None =>
                           /\ Len(accepted[d]) <= 1
                           /\ Editable(d) => accepted[d] = <<>>
                           /\ drafts[d].state = "sent" => Len(accepted[d]) = 1
                      /\ \A i \in 1..Len(accepted[d]) : SentFor(d, accepted[d][i])
    BY Zenon DEF SentOnceAsWritten, NoSecondCopy, SentAsWritten, EveryRecipientDecided, SentFor
  <2>1. RowInv(d)
    BY Zenon DEF WebmailInv
  <2>2. CASE accepted[d] = <<>>
    BY <2>1, <2>2 DEF RowInv
  <2>3. CASE accepted[d] # <<>>
    <3>1. PICK a : accepted[d] = <<a>> /\ SentFor(d, a)
      BY <2>1, <2>3, Zenon DEF RowInv
    <3>2. Len(accepted[d]) = 1 /\ accepted[d][1] = a
      BY <3>1
    <3> QED
      BY <2>1, <2>3, <3>1, <3>2 DEF RowInv
  <2> QED
    BY <2>2, <2>3, Zenon
<1> QED
  BY <1>1, WebmailInvariant, PTL

-----------------------------------------------------------------------------
(* Reading mail (MailFolders)                                               *)

Uid == Nat \ {0}

\* There is a list of exactly these messages, newest first.
Sortable(S) == \E s \in [1..Cardinality(S) -> S] : Members(s) = S /\ NewestFirst(s)

\* The page as it was listed: what has been fetched of it and what has not.
Listed == pager.page \o pager.ids

FoldersType ==
    /\ uidnext \in Uid
    /\ held \subseteq 1..(uidnext - 1)
    /\ pager \in [stage : {"none", "search", "fetch", "end"}, cursor : Nat,
                  ids : Seq(Uid), page : Seq(Uid), shown : Seq(Uid)]

FolderInv ==
    /\ IsFiniteSet(held)
    /\ Sortable(held)
    /\ throughout \subseteq held
    /\ deleting \subseteq asked
    /\ RemovedWasAsked

\* What is shown is in order, and the cursor is the last of it; what is listed
\* is in order and after the cursor.
OrderInv ==
    /\ NewestFirst(pager.shown)
    /\ pager.stage \in {"search", "fetch"} =>
          /\ pager.cursor = 0 => pager.shown = <<>>
          /\ pager.cursor # 0 =>
                pager.shown # <<>> /\ pager.cursor = pager.shown[Len(pager.shown)]
    /\ pager.stage = "fetch" =>
          /\ Len(Listed) <= Limit + 1
          /\ NewestFirst(Listed)
          /\ pager.cursor # 0 => \A i \in 1..Len(Listed) : Listed[i] < pager.cursor

\* A message that has been there throughout is shown, listed, or still to come.
CoverInv ==
    ~stale =>
        /\ pager.stage = "search" /\ pager.cursor # 0 =>
              \A u \in throughout : u \in Members(pager.shown) \/ u < pager.cursor
        /\ pager.stage = "fetch" =>
              \A u \in throughout :
                  \/ u \in Members(pager.shown) \cup Members(Listed)
                  \/ Len(Listed) = Limit + 1 /\ u < Listed[Limit + 1]
        /\ pager.stage = "end" => throughout \subseteq Members(pager.shown)

FoldersInv == FoldersType /\ FolderInv /\ OrderInv /\ CoverInv

\* A set that can be listed can with a newer UID.
LEMMA SortableAdd ==
    ASSUME NEW S \in SUBSET Nat, IsFiniteSet(S), Sortable(S),
           NEW u \in Nat, \A v \in S : v < u
    PROVE  Sortable(S \cup {u})
<1> DEFINE n == Cardinality(S)
<1>1. n \in Nat /\ Cardinality(S \cup {u}) = n + 1
  BY FS_CardinalityType, FS_AddElement
<1>2. PICK s \in [1..n -> S] : Members(s) = S /\ NewestFirst(s)
  BY Zenon DEF Sortable
<1> HIDE DEF n
<1>3. Len(s) = n
  BY <1>1, <1>2
<1> DEFINE t == [i \in 1..(n + 1) |-> IF i = 1 THEN u ELSE s[i - 1]]
<1>4. t \in [1..(n + 1) -> S \cup {u}] /\ Len(t) = n + 1
  BY <1>1, <1>2
<1>5. \A i \in 1..n : t[i + 1] = s[i]
  BY <1>1
<1>6. t[1] = u
  BY <1>1
<1> HIDE DEF t
<1>7. Members(t) = S \cup {u}
  <2>1. ASSUME NEW v \in S PROVE v \in Members(t)
    <3>1. PICK i \in 1..n : s[i] = v
      BY <1>2, <1>3, Zenon DEF Members
    <3>2. i + 1 \in 1..(n + 1) /\ t[i + 1] = v
      BY <1>1, <1>5, <3>1
    <3> QED
      BY <1>4, <3>2, Zenon DEF Members
  <2>2. u \in Members(t)
    BY <1>1, <1>4, <1>6 DEF Members
  <2>3. Members(t) \subseteq S \cup {u}
    BY <1>4, Zenon DEF Members
  <2> QED
    BY <2>1, <2>2, <2>3, Zenon
<1>8. NewestFirst(t)
  <2> SUFFICES ASSUME NEW i \in 1..(n + 1), NEW j \in 1..(n + 1), i < j PROVE t[i] > t[j]
    BY <1>4, Zenon DEF NewestFirst
  <2>1. j - 1 \in 1..n /\ t[j] = s[j - 1] /\ s[j - 1] \in S
    BY <1>1, <1>2, <1>5
  <2>2. CASE i = 1
    BY <1>6, <2>1, <2>2, Zenon
  <2>3. CASE i # 1
    <3>1. i - 1 \in 1..n /\ t[i] = s[i - 1] /\ i - 1 < j - 1
      BY <1>1, <1>5, <2>1, <2>3
    <3> QED
      BY <1>2, <1>3, <2>1, <3>1, Zenon DEF NewestFirst
  <2> QED
    BY <2>2, <2>3, Zenon
<1> QED
  BY <1>1, <1>4, <1>7, <1>8, Zenon DEF Sortable

\* A set that can be listed can without one of its UIDs.
LEMMA SortableRemove ==
    ASSUME NEW S \in SUBSET Nat, IsFiniteSet(S), Sortable(S), NEW u \in S
    PROVE  Sortable(S \ {u})
<1> DEFINE n == Cardinality(S)
<1>1. n \in Nat /\ Cardinality(S \ {u}) = n - 1
  BY FS_CardinalityType, FS_RemoveElement, Zenon
<1>2. PICK s \in [1..n -> S] : Members(s) = S /\ NewestFirst(s)
  BY Zenon DEF Sortable
<1> HIDE DEF n
<1>3. Len(s) = n
  BY <1>1, <1>2
<1>4. PICK k \in 1..n : s[k] = u
  BY <1>2, <1>3, Zenon DEF Members
<1>5. \A i, j \in 1..n : s[i] = s[j] => i = j
  <2> SUFFICES ASSUME NEW i \in 1..n, NEW j \in 1..n, i < j PROVE s[i] # s[j]
    BY <1>1
  <2>1. s[i] > s[j] /\ s[i] \in Nat /\ s[j] \in Nat
    BY <1>2, <1>3, Zenon DEF NewestFirst
  <2> QED
    BY <2>1
<1> DEFINE f(i) == IF i < k THEN i ELSE i + 1
           t == [i \in 1..(n - 1) |-> s[f(i)]]
<1>6. \A i \in 1..(n - 1) : f(i) \in 1..n /\ f(i) # k
  BY <1>1
<1>7. \A i, j \in 1..(n - 1) : i < j => f(i) < f(j)
  BY <1>1
<1>8. \A i \in 1..n : i # k => \E j \in 1..(n - 1) : f(j) = i
  <2> SUFFICES ASSUME NEW i \in 1..n, i # k PROVE \E j \in 1..(n - 1) : f(j) = i
    BY Zenon
  <2>1. CASE i < k
    <3>1. i \in 1..(n - 1) /\ f(i) = i
      BY <1>1, <2>1
    <3> QED
      BY <3>1, Zenon
  <2>2. CASE i > k
    <3>1. i - 1 \in 1..(n - 1) /\ f(i - 1) = i
      BY <1>1, <2>2
    <3> QED
      BY <3>1, Zenon
  <2> QED
    BY <1>1, <2>1, <2>2
<1> HIDE DEF f
<1>9. \A i \in 1..(n - 1) : t[i] = s[f(i)] /\ t[i] \in S \ {u}
  BY <1>2, <1>4, <1>5, <1>6, Zenon
<1>10. n - 1 \in Nat
  BY <1>1, <1>4
<1>11. t \in [1..(n - 1) -> S \ {u}] /\ Len(t) = n - 1
  BY <1>9, <1>10
<1> HIDE DEF t
<1>12. Members(t) = S \ {u}
  <2>1. ASSUME NEW v \in S \ {u} PROVE v \in Members(t)
    <3>1. PICK i \in 1..n : s[i] = v
      BY <1>2, <1>3, Zenon DEF Members
    <3>2. PICK j \in 1..(n - 1) : f(j) = i
      BY <1>4, <1>8, <3>1, Zenon
    <3> QED
      BY <1>9, <1>11, <3>1, <3>2, Zenon DEF Members
  <2> QED
    BY <1>9, <1>11, <2>1, Zenon DEF Members
<1>13. NewestFirst(t)
  BY <1>2, <1>3, <1>6, <1>7, <1>9, <1>11, Zenon DEF NewestFirst
<1> QED
  BY <1>1, <1>11, <1>12, <1>13, Zenon DEF Sortable

\* The search lists what the folder holds, newest first.
LEMMA MessageIDsSorted ==
    ASSUME FoldersInv
    PROVE  /\ messageIDs \in Seq(held) /\ Members(messageIDs) = held
           /\ NewestFirst(messageIDs) /\ held \subseteq Uid
<1>1. Cardinality(held) \in Nat
  BY FS_CardinalityType, Zenon DEF FoldersInv, FolderInv
<1>2. PICK s \in [1..Cardinality(held) -> held] : Members(s) = held /\ NewestFirst(s)
  BY Zenon DEF FoldersInv, FolderInv, Sortable
<1>3. /\ messageIDs \in [1..Cardinality(held) -> held]
      /\ Members(messageIDs) = held /\ NewestFirst(messageIDs)
  BY <1>2, Zenon DEF messageIDs
<1>4. held \subseteq Uid
  BY DEF FoldersInv, FoldersType, Uid
<1>5. messageIDs \in Seq(held)
  BY <1>1, <1>3
<1> QED
  BY <1>3, <1>4, <1>5, Zenon

\* The first entries of a list.
LEMMA PrefixFacts ==
    ASSUME NEW S, NEW a \in Seq(S), NEW h \in Nat, h <= Len(a)
    PROVE  /\ SubSeq(a, 1, h) \in Seq(S) /\ Len(SubSeq(a, 1, h)) = h
           /\ \A i \in 1..h : SubSeq(a, 1, h)[i] = a[i]
OBVIOUS

\* A page holds messages after the cursor, in order and without a gap.
LEMMA PageFollowsCursor ==
    ASSUME NEW S \in SUBSET Uid, NEW m \in Seq(S), Members(m) = S, NewestFirst(m),
           NEW c \in Nat, NEW l, l = AtMost(Limit + 1, afterCursor(m, c))
    PROVE  /\ l \in Seq(S) /\ Len(l) <= Limit + 1 /\ NewestFirst(l)
           /\ c # 0 => \A i \in 1..Len(l) : l[i] < c
           /\ c = 0 \/ c \in S =>
                 \A u \in S : c = 0 \/ u < c =>
                     u \in Members(l) \/ (Len(l) = Limit + 1 /\ u < l[Limit + 1])
<1>0. Limit \in Nat /\ Limit > 0 /\ Len(m) \in Nat
  BY LimitAssumption
<1>1. CASE c # 0 /\ c \notin S
  <2>1. l = <<>>
    BY <1>0, <1>1 DEF AtMost, afterCursor
  <2>2. l \in Seq(S) /\ Len(l) = 0
    <3>1. <<>> \in Seq(S) /\ Len(<<>>) = 0
      OBVIOUS
    <3> QED
      BY <2>1, <3>1, Zenon
  <2> QED
    BY <1>0, <1>1, <2>2 DEF NewestFirst
<1>2. CASE c = 0 \/ c \in S
  <2>1. PICK k \in 0..Len(m) : /\ k = 0 <=> c = 0
                               /\ k # 0 => m[k] = c
                               /\ afterCursor(m, c) = SubSeq(m, k + 1, Len(m))
    <3>1. CASE c = 0
      <4>1. m = SubSeq(m, 1, Len(m))
        BY <1>0
      <4> QED
        BY <1>0, <3>1, <4>1 DEF afterCursor
    <3>2. CASE c # 0
      <4>1. c \in Members(m)
        BY <1>2, <3>2, Zenon
      <4>2. \E i \in 1..Len(m) : m[i] = c
        BY <4>1, Zenon DEF Members
      <4> DEFINE k == CHOOSE i \in 1..Len(m) : m[i] = c
      <4>3. k \in 1..Len(m) /\ m[k] = c
        BY <4>2, Zenon
      <4>4. afterCursor(m, c) = SubSeq(m, 1 + k, Len(m))
        BY <3>2, <4>1, Zenon DEF afterCursor
      <4> HIDE DEF k
      <4> QED
        BY <1>0, <3>2, <4>3, <4>4
    <3> QED
      BY <3>1, <3>2, Zenon
  <2> DEFINE a == SubSeq(m, k + 1, Len(m))
             h == IF Len(m) - k < Limit + 1 THEN Len(m) - k ELSE Limit + 1
  <2>2. a \in Seq(S) /\ Len(a) = Len(m) - k /\ \A i \in 1..(Len(m) - k) : a[i] = m[k + i]
    BY <1>0
  <2> HIDE DEF a
  <2>3. h \in Nat /\ h <= Limit + 1 /\ h <= Len(m) - k
    BY <1>0
  <2>4. l = SubSeq(a, 1, h)
    BY <2>1, <2>2, Zenon DEF AtMost, a
  <2>5. h < Limit + 1 => h = Len(m) - k
    BY <1>0
  <2> HIDE DEF h
  <2>6. l \in Seq(S) /\ Len(l) = h /\ \A i \in 1..h : l[i] = a[i]
    <3>1. h <= Len(a)
      BY <2>2, <2>3
    <3>2. /\ SubSeq(a, 1, h) \in Seq(S) /\ Len(SubSeq(a, 1, h)) = h
          /\ \A i \in 1..h : SubSeq(a, 1, h)[i] = a[i]
      BY <2>2, <2>3, <3>1, PrefixFacts
    <3>3. QED
      BY <2>4, <3>2, Zenon
  <2>7. \A i \in 1..h : l[i] = m[k + i] /\ k + i \in 1..Len(m) /\ m[k + i] \in Nat
    <3> SUFFICES ASSUME NEW i \in 1..h
                 PROVE  l[i] = m[k + i] /\ k + i \in 1..Len(m) /\ m[k + i] \in Nat
      BY Zenon
    <3>1. i \in 1..(Len(m) - k) /\ k + i \in 1..Len(m)
      BY <1>0, <2>3
    <3>2. m[k + i] \in S
      BY <3>1
    <3> QED
      BY <2>2, <2>6, <3>1, <3>2, Zenon DEF Uid
  <2>8. NewestFirst(l)
    <3> SUFFICES ASSUME NEW i \in 1..h, NEW j \in 1..h, i < j PROVE l[i] > l[j]
      BY <2>6, Zenon DEF NewestFirst
    <3>1. k + i < k + j
      BY <1>0
    <3> QED
      BY <2>7, <3>1, Zenon DEF NewestFirst
  <2>9. c # 0 => \A i \in 1..h : l[i] < c
    <3> SUFFICES ASSUME c # 0, NEW i \in 1..h PROVE l[i] < c
      BY Zenon
    <3>1. k \in 1..Len(m) /\ k < k + i /\ m[k] = c
      BY <1>0, <2>1
    <3>2. m[k] > m[k + i]
      BY <2>7, <3>1, Zenon DEF NewestFirst
    <3> QED
      BY <2>7, <3>1, <3>2, Zenon
  <2>10. ASSUME NEW u \in S, c = 0 \/ u < c
         PROVE  u \in Members(l) \/ (Len(l) = Limit + 1 /\ u < l[Limit + 1])
    <3>1. PICK i \in 1..Len(m) : m[i] = u
      BY Zenon DEF Members
    <3>2. i > k
      <4> SUFFICES ASSUME i <= k, k # 0, m[k] = c, u < c PROVE FALSE
        BY <1>0, <2>1, <2>10, <3>1
      <4>1. k \in 1..Len(m) /\ u \in Nat
        BY <1>0 DEF Uid
      <4>2. i < k \/ i = k
        BY <1>0
      <4> QED
        BY <3>1, <4>1, <4>2 DEF NewestFirst
    <3>3. CASE i <= k + h
      <4>1. i - k \in 1..h /\ k + (i - k) = i
        BY <1>0, <2>3, <3>2, <3>3
      <4>2. l[i - k] = u
        BY <2>7, <3>1, <4>1, Zenon
      <4> QED
        BY <2>6, <4>1, <4>2, Zenon DEF Members
    <3>4. CASE i > k + h
      <4>1. h = Limit + 1
        BY <1>0, <2>3, <2>5, <3>4
      <4>2. l[h] = m[k + h] /\ k + h \in 1..Len(m)
        BY <1>0, <2>7, <4>1
      <4>3. m[k + h] > u /\ u \in Nat /\ m[k + h] \in Nat
        <5>1. k + h < i /\ i \in 1..Len(m)
          BY <1>0, <2>3, <3>4, Zenon
        <5>2. m[k + h] > m[i]
          BY <4>2, <5>1, Zenon DEF NewestFirst
        <5>3. m[k + h] \in S /\ m[i] \in S
          BY <4>2, <5>1
        <5> QED
          BY <3>1, <5>2, <5>3, Zenon DEF Uid
      <4> QED
        BY <2>6, <4>1, <4>2, <4>3, Zenon
    <3> QED
      BY <1>0, <2>3, <3>3, <3>4
  <2> QED
    BY <2>3, <2>6, <2>8, <2>9, <2>10, Zenon
<1> QED
  BY <1>1, <1>2, Zenon


\* Fetching moves a message from one half of the list to the other.
LEMMA FetchKeepsList ==
    ASSUME NEW page \in Seq(Uid), NEW ids \in Seq(Uid), ids # <<>>
    PROVE  /\ Head(ids) \in Uid /\ Tail(ids) \in Seq(Uid)
           /\ Append(page, Head(ids)) \in Seq(Uid)
           /\ Append(page, Head(ids)) \o Tail(ids) = page \o ids
  OBVIOUS

\* Searching for a page keeps the invariant.
LEMMA SearchStep ==
    ASSUME FoldersInv, SearchPage
    PROVE  FoldersInv'
<1>0. Limit \in Nat /\ Limit > 0
  BY LimitAssumption
<1>1. PICK l : l = AtMost(Limit + 1, afterCursor(messageIDs, pager.cursor))
  BY Zenon
<1>2. pager.cursor \in Nat /\ pager.shown \in Seq(Uid)
  BY Zenon DEF FoldersInv, FoldersType
<1>3. /\ held \subseteq Uid
      /\ l \in Seq(held) /\ Len(l) <= Limit + 1 /\ NewestFirst(l)
      /\ pager.cursor # 0 => \A i \in 1..Len(l) : l[i] < pager.cursor
      /\ pager.cursor = 0 \/ pager.cursor \in held =>
            \A u \in held : pager.cursor = 0 \/ u < pager.cursor =>
                u \in Members(l) \/ (Len(l) = Limit + 1 /\ u < l[Limit + 1])
  BY <1>1, <1>2, MessageIDsSorted, PageFollowsCursor
<1>4. l \in Seq(Uid)
  BY <1>3
<1>5. /\ pager' = Walk("fetch", pager.cursor, l, <<>>, pager.shown)
      /\ stale' = (stale \/ (pager.cursor # 0 /\ pager.cursor \notin held))
      /\ UNCHANGED <<held, uidnext, marked, deleting, asked, throughout>>
      /\ pager.stage = "search"
  BY <1>1, Zenon DEF SearchPage
<1>6. /\ pager'.stage = "fetch" /\ pager'.cursor = pager.cursor /\ pager'.ids = l
      /\ pager'.page = <<>> /\ pager'.shown = pager.shown
  BY <1>5, Zenon DEF Walk
<1>7. Listed' = l
  BY <1>4, <1>6 DEF Listed
<1>8. FoldersType'
  <2>1. <<>> \in Seq(Uid)
    OBVIOUS
  <2>2. pager' \in [stage : {"none", "search", "fetch", "end"}, cursor : Nat,
                    ids : Seq(Uid), page : Seq(Uid), shown : Seq(Uid)]
    BY <1>2, <1>4, <1>5, <2>1, Zenon DEF Walk
  <2> QED
    BY <1>5, <2>2, Zenon DEF FoldersInv, FoldersType
<1>9. FolderInv'
  BY <1>5, Zenon DEF FoldersInv, FolderInv, RemovedWasAsked
<1>10. OrderInv'
  BY <1>3, <1>5, <1>6, <1>7, Zenon DEF FoldersInv, OrderInv
<1>11. CoverInv'
  <2> SUFFICES ASSUME ~stale', NEW u \in throughout
               PROVE  \/ u \in Members(pager.shown) \cup Members(l)
                      \/ Len(l) = Limit + 1 /\ u < l[Limit + 1]
    BY <1>5, <1>6, <1>7, Zenon DEF CoverInv
  <2>1. u \in held
    BY Zenon DEF FoldersInv, FolderInv
  <2>2. pager.cursor = 0 \/ u \in Members(pager.shown) \/ u < pager.cursor
    BY <1>5, Zenon DEF FoldersInv, CoverInv
  <2> QED
    BY <1>3, <1>5, <2>1, <2>2, Zenon
<1> QED
  BY <1>8, <1>9, <1>10, <1>11, Zenon DEF FoldersInv

\* Fetching a summary keeps the invariant.
LEMMA FetchStep ==
    ASSUME FoldersInv, FetchSummary
    PROVE  FoldersInv'
<1>1. /\ pager.cursor \in Nat /\ pager.shown \in Seq(Uid) /\ pager.ids \in Seq(Uid)
      /\ pager.page \in Seq(Uid) /\ Listed \in Seq(Uid)
  BY DEF FoldersInv, FoldersType, Listed
<1>2. /\ pager.stage = "fetch" /\ pager.ids # <<>>
      /\ UNCHANGED <<held, uidnext, marked, deleting, asked, throughout, stale>>
      /\ \/ pager' = Walk("fetch", pager.cursor, Tail(pager.ids),
                          Append(pager.page, Head(pager.ids)), pager.shown)
         \/ pager' = Walk("search", pager.cursor, <<>>, <<>>, pager.shown)
  BY Zenon DEF FetchSummary
<1>3. FolderInv'
  BY <1>2, Zenon DEF FoldersInv, FolderInv, RemovedWasAsked
<1>4. CASE pager' = Walk("fetch", pager.cursor, Tail(pager.ids),
                         Append(pager.page, Head(pager.ids)), pager.shown)
  <2>1. /\ pager'.stage = "fetch" /\ pager'.cursor = pager.cursor
        /\ pager'.ids = Tail(pager.ids) /\ pager'.page = Append(pager.page, Head(pager.ids))
        /\ pager'.shown = pager.shown
    BY <1>4, Zenon DEF Walk
  <2>2. Listed' = Listed
    BY <1>1, <1>2, <2>1, FetchKeepsList, Zenon DEF Listed
  <2>3. FoldersType'
    <3>1. Tail(pager.ids) \in Seq(Uid) /\ Append(pager.page, Head(pager.ids)) \in Seq(Uid)
      BY <1>1, <1>2, FetchKeepsList, Zenon
    <3>2. pager' \in [stage : {"none", "search", "fetch", "end"}, cursor : Nat,
                      ids : Seq(Uid), page : Seq(Uid), shown : Seq(Uid)]
      BY <1>1, <1>4, <3>1, Zenon DEF Walk
    <3> QED
      BY <1>2, <3>2, Zenon DEF FoldersInv, FoldersType
  <2>4. OrderInv'
    BY <1>2, <2>1, <2>2, Zenon DEF FoldersInv, OrderInv
  <2>5. CoverInv'
    BY <1>2, <2>1, <2>2, Zenon DEF FoldersInv, CoverInv
  <2> QED
    BY <1>3, <2>3, <2>4, <2>5, Zenon DEF FoldersInv
<1>5. CASE pager' = Walk("search", pager.cursor, <<>>, <<>>, pager.shown)
  <2>1. /\ pager'.stage = "search" /\ pager'.cursor = pager.cursor
        /\ pager'.shown = pager.shown
    BY <1>5, Zenon DEF Walk
  <2>2. FoldersType'
    <3>1. pager' \in [stage : {"none", "search", "fetch", "end"}, cursor : Nat,
                      ids : Seq(Uid), page : Seq(Uid), shown : Seq(Uid)]
      BY <1>1, <1>5 DEF Walk
    <3> QED
      BY <1>2, <3>1 DEF FoldersInv, FoldersType
  <2>3. OrderInv'
    BY <1>2, <2>1, Zenon DEF FoldersInv, OrderInv
  <2>4. CoverInv'
    <3> SUFFICES ASSUME ~stale, pager.cursor # 0, NEW u \in throughout
                 PROVE  u \in Members(pager.shown) \/ u < pager.cursor
      BY <1>2, <2>1, Zenon DEF CoverInv
    <3>1. \A i \in 1..Len(Listed) : Listed[i] < pager.cursor
      BY <1>2, Zenon DEF FoldersInv, OrderInv
    <3>2. \/ u \in Members(pager.shown) \cup Members(Listed)
          \/ Len(Listed) = Limit + 1 /\ u < Listed[Limit + 1]
      BY <1>2, Zenon DEF FoldersInv, CoverInv
    <3>3. u \in Members(Listed) => u < pager.cursor
      BY <3>1, Zenon DEF Members
    <3>4. Len(Listed) = Limit + 1 => Limit + 1 \in 1..Len(Listed) /\ Listed[Limit + 1] \in Nat
      BY <1>1, LimitAssumption DEF Uid
    <3>5. u \in Nat
      BY DEF FoldersInv, FoldersType, FolderInv
    <3> QED
      BY <1>1, <3>1, <3>2, <3>3, <3>4, <3>5
  <2> QED
    BY <1>3, <2>2, <2>3, <2>4 DEF FoldersInv
<1> QED
  BY <1>2, <1>4, <1>5, Zenon

\* Showing a page keeps the invariant.
LEMMA ShowStep ==
    ASSUME FoldersInv, ShowPage
    PROVE  FoldersInv'
<1>0. Limit \in Nat /\ Limit > 0
  BY LimitAssumption
<1>1. PICK page \in Seq(Uid) : page = pager.page
  BY Zenon DEF FoldersInv, FoldersType
<1>2. PICK shown \in Seq(Uid) : shown = pager.shown
  BY Zenon DEF FoldersInv, FoldersType
<1>3. /\ pager.stage = "fetch" /\ pager.ids = <<>> /\ pager.cursor \in Nat
      /\ UNCHANGED <<held, uidnext, marked, deleting, asked, throughout, stale>>
  BY Zenon DEF ShowPage, FoldersInv, FoldersType
<1>4. Listed = page
  BY <1>1, <1>3 DEF Listed
<1>5. /\ Len(page) \in Nat /\ Len(page) <= Limit + 1 /\ NewestFirst(page) /\ NewestFirst(shown)
      /\ pager.cursor = 0 => shown = <<>>
      /\ pager.cursor # 0 => shown # <<>> /\ pager.cursor = shown[Len(shown)]
      /\ pager.cursor # 0 => \A i \in 1..Len(page) : page[i] < pager.cursor
  BY <1>2, <1>3, <1>4 DEF FoldersInv, OrderInv
<1> DEFINE n == IF Len(page) < Limit THEN Len(page) ELSE Limit
           more == Len(page) > Limit
           top == AtMost(Limit, page)
           all == shown \o top
<1>6. n \in Nat /\ n <= Len(page) /\ (more => n = Limit) /\ (~more => n = Len(page))
  BY <1>0, <1>5
<1>7. top \in Seq(Uid) /\ Len(top) = n /\ \A i \in 1..n : top[i] = page[i]
  BY <1>5, <1>6 DEF AtMost
<1> HIDE DEF top, n
<1>8. /\ all \in Seq(Uid) /\ Len(all) = Len(shown) + n /\ Len(shown) \in Nat
      /\ \A i \in 1..Len(shown) : all[i] = shown[i]
      /\ \A i \in 1..n : all[Len(shown) + i] = page[i]
  <2>1. /\ all \in Seq(Uid) /\ Len(all) = Len(shown) + Len(top) /\ Len(shown) \in Nat
        /\ \A i \in 1..Len(shown) : all[i] = shown[i]
    BY <1>6, <1>7, SMTT(20)
  <2>2. ASSUME NEW i \in 1..n PROVE all[Len(shown) + i] = page[i]
    <3>1. all[Len(shown) + i] = top[i]
      BY <1>6, <1>7
    <3> QED
      BY <1>7, <3>1, Zenon
  <2> QED
    BY <1>7, <2>1, <2>2, Zenon
<1>9. /\ pager'.shown = all
      /\ more => pager'.stage = "search" /\ pager'.cursor = page[Limit] /\ page[Limit] \in Uid
      /\ ~more => pager'.stage = "end" /\ pager'.cursor = 0
      /\ pager'.ids = <<>> /\ pager'.page = <<>>
      /\ pager' = Walk(pager'.stage, pager'.cursor, <<>>, <<>>, all)
  <2>1. more => Limit \in 1..Len(page) /\ page[Limit] \in Uid
    BY <1>0, <1>5
  <2>2. pager' = Walk(IF NextCursor(page) = 0 THEN "end" ELSE "search",
                      NextCursor(page), <<>>, <<>>, all)
    BY <1>1, <1>2, Zenon DEF ShowPage, top
  <2>3. more => NextCursor(page) = page[Limit] /\ NextCursor(page) # 0
    BY <2>1, Zenon DEF NextCursor, Uid
  <2>4. ~more => NextCursor(page) = 0
    BY Zenon DEF NextCursor
  <2> HIDE DEF all, more
  <2> QED
    BY <2>1, <2>2, <2>3, <2>4, Zenon DEF Walk
<1> HIDE DEF all
<1>10. FoldersType'
  <2>1. <<>> \in Seq(Uid)
    OBVIOUS
  <2>2. pager'.stage \in {"none", "search", "fetch", "end"} /\ pager'.cursor \in Nat
    BY <1>9 DEF Uid
  <2>3. pager' \in [stage : {"none", "search", "fetch", "end"}, cursor : Nat,
                    ids : Seq(Uid), page : Seq(Uid), shown : Seq(Uid)]
    BY <1>8, <1>9, <2>1, <2>2, Zenon DEF Walk
  <2> QED
    BY <1>3, <2>3, Zenon DEF FoldersInv, FoldersType
<1>11. FolderInv'
  BY <1>3, Zenon DEF FoldersInv, FolderInv, RemovedWasAsked
<1>12. NewestFirst(all)
  <2> SUFFICES ASSUME NEW i \in 1..(Len(shown) + n), NEW j \in 1..(Len(shown) + n), i < j
               PROVE  all[i] > all[j]
    BY <1>8, Zenon DEF NewestFirst
  <2>1. CASE j <= Len(shown)
    <3>1. i \in 1..Len(shown) /\ j \in 1..Len(shown)
      BY <1>8, <2>1
    <3> QED
      BY <1>5, <1>8, <3>1, Zenon DEF NewestFirst
  <2>2. CASE i > Len(shown)
    <3>0. /\ i - Len(shown) \in 1..n /\ i = Len(shown) + (i - Len(shown))
          /\ j - Len(shown) \in 1..n /\ j = Len(shown) + (j - Len(shown))
      BY <1>6, <1>8, <2>2
    <3>1. PICK a \in 1..n : i = Len(shown) + a
      BY <3>0, Zenon
    <3>2. PICK b \in 1..n : j = Len(shown) + b
      BY <3>0, Zenon
    <3>3. a \in 1..Len(page) /\ b \in 1..Len(page) /\ a < b
      <4>1. a < b
        BY <1>8, <3>1, <3>2
      <4> QED
        BY <1>5, <1>6, <4>1
    <3> QED
      BY <1>5, <1>8, <3>1, <3>2, <3>3, Zenon DEF NewestFirst
  <2>3. CASE i <= Len(shown) /\ j > Len(shown)
    <3>0. j - Len(shown) \in 1..n /\ j = Len(shown) + (j - Len(shown))
      BY <1>6, <1>8, <2>3
    <3>1. PICK b \in 1..n : j = Len(shown) + b
      BY <3>0, Zenon
    <3>2. i \in 1..Len(shown) /\ b \in 1..Len(page) /\ Len(shown) \in 1..Len(shown)
      BY <1>5, <1>6, <1>8, <2>3
    <3>3. pager.cursor # 0
      BY <1>5, <3>2
    <3>4. page[b] < shown[Len(shown)]
      BY <1>5, <3>2, <3>3, Zenon
    <3>5. i = Len(shown) \/ shown[i] > shown[Len(shown)]
      BY <1>5, <3>2 DEF NewestFirst
    <3>6. shown[i] \in Nat /\ shown[Len(shown)] \in Nat /\ page[b] \in Nat
      BY <3>2 DEF Uid
    <3>7. all[i] = shown[i] /\ all[j] = page[b]
      BY <1>8, <3>1, <3>2, Zenon
    <3> QED
      BY <3>4, <3>5, <3>6, <3>7
  <2> QED
    BY <1>8, <2>1, <2>2, <2>3
<1>13. OrderInv'
  <2>1. more => all # <<>> /\ all[Len(all)] = page[Limit]
    <3>1. more => Limit \in 1..n /\ Len(all) = Len(shown) + Limit
      BY <1>0, <1>6, <1>8
    <3>2. Len(<<>>) = 0
      BY Zenon
    <3> QED
      BY <1>0, <1>8, <3>1, <3>2
  <2> HIDE DEF more
  <2> QED
    BY <1>9, <1>12, <2>1, Zenon DEF OrderInv, Uid
<1>14. CoverInv'
  <2> SUFFICES ASSUME ~stale, NEW u \in throughout
               PROVE  u \in Members(all) \/ (more /\ u < page[Limit])
    BY <1>3, <1>9, Zenon DEF CoverInv
  <2>1. \/ u \in Members(shown) \cup Members(page)
        \/ Len(page) = Limit + 1 /\ u < page[Limit + 1]
    BY <1>2, <1>3, <1>4, Zenon DEF FoldersInv, CoverInv
  <2>2. u \in Members(shown) => u \in Members(all)
    BY <1>6, <1>8 DEF Members
  <2>3. \A i \in 1..n : page[i] \in Members(all)
    <3> SUFFICES ASSUME NEW i \in 1..n PROVE page[i] \in Members(all)
      BY Zenon
    <3>1. Len(shown) + i \in 1..Len(all)
      BY <1>6, <1>8
    <3> QED
      BY <1>8, <3>1, Zenon DEF Members
  <2>4. more => page[Limit + 1] < page[Limit] /\ page[Limit + 1] \in Nat /\ page[Limit] \in Nat
    <3>1. more => Limit \in 1..Len(page) /\ Limit + 1 \in 1..Len(page) /\ Limit < Limit + 1
      BY <1>0, <1>5
    <3> QED
      BY <1>5, <3>1 DEF NewestFirst, Uid
  <2>5. u \in Nat
    BY DEF FoldersInv, FoldersType, FolderInv
  <2>6. CASE u \in Members(page)
    <3>1. PICK i \in 1..Len(page) : page[i] = u
      BY <2>6, Zenon DEF Members
    <3>2. i \in 1..n \/ (more /\ i = Limit + 1)
      BY <1>0, <1>5, <1>6
    <3> QED
      BY <2>3, <2>4, <3>1, <3>2, Zenon
  <2>7. CASE Len(page) = Limit + 1 /\ u < page[Limit + 1]
    <3>1. more
      BY <1>0, <2>7
    <3> QED
      BY <1>9, <2>4, <2>5, <2>7, <3>1
  <2> QED
    BY <2>1, <2>2, <2>6, <2>7, Zenon
<1> QED
  BY <1>10, <1>11, <1>13, <1>14, Zenon DEF FoldersInv

\* Opening a folder keeps the invariant.
LEMMA OpenStep ==
    ASSUME FoldersInv, OpenFolder
    PROVE  FoldersInv'
<1>1. /\ pager' = Walk("search", 0, <<>>, <<>>, <<>>) /\ throughout' = held /\ ~stale'
      /\ UNCHANGED <<held, uidnext, deleting, asked>>
  BY Zenon DEF OpenFolder
<1>2. pager'.stage = "search" /\ pager'.cursor = 0 /\ pager'.shown = <<>>
  BY <1>1, Zenon DEF Walk
<1>3. FoldersType'
  <2>1. pager' \in [stage : {"none", "search", "fetch", "end"}, cursor : Nat,
                    ids : Seq(Uid), page : Seq(Uid), shown : Seq(Uid)]
    BY <1>1 DEF Walk
  <2> QED
    BY <1>1, <2>1, Zenon DEF FoldersInv, FoldersType
<1>4. FolderInv'
  BY <1>1, Zenon DEF FoldersInv, FolderInv, RemovedWasAsked
<1>5. OrderInv' /\ CoverInv'
  <2>1. Len(<<>>) = 0
    BY Zenon
  <2> QED
    BY <1>2, <2>1 DEF OrderInv, CoverInv, NewestFirst
<1> QED
  BY <1>3, <1>4, <1>5, Zenon DEF FoldersInv

\* What others do to the folder leaves the walk where it is.
LEMMA ElsewhereKeepsWalk ==
    ASSUME FoldersInv, UNCHANGED <<pager, stale>>, throughout' \subseteq throughout,
           FolderInv', uidnext' \in Uid, held' \subseteq 1..(uidnext' - 1)
    PROVE  FoldersInv'
<1>1. FoldersType' /\ OrderInv'
  BY Zenon DEF FoldersInv, FoldersType, OrderInv, Listed
<1>2. CoverInv'
  BY Zenon DEF FoldersInv, CoverInv, Listed
<1> QED
  BY <1>1, <1>2, Zenon DEF FoldersInv

\* What other clients and deliveries do keeps the invariant.
LEMMA ElsewhereStep ==
    ASSUME FoldersInv,
           \/ Deliver
           \/ \E u \in 1..MaxUid : Move(u) \/ MarkElsewhere(u) \/ StoreDeleted(u)
                                   \/ Expunge(u) \/ DeleteFails(u)
    PROVE  FoldersInv'
<1>0. uidnext \in Uid /\ held \subseteq 1..(uidnext - 1) /\ FolderInv
  BY Zenon DEF FoldersInv, FoldersType
<1>1. CASE Deliver
  <2>1. Sortable(held')
    <3>1. held \in SUBSET Nat /\ uidnext \in Nat /\ \A v \in held : v < uidnext
      BY <1>0 DEF Uid
    <3> QED
      BY <1>0, <1>1, <3>1, SortableAdd, Zenon DEF Deliver, FolderInv
  <2>2. IsFiniteSet(held')
    BY <1>0, <1>1, FS_AddElement, Zenon DEF Deliver, FolderInv
  <2>3. uidnext' \in Uid /\ held' \subseteq 1..(uidnext' - 1)
    BY <1>0, <1>1 DEF Deliver, Uid
  <2>4. RemovedWasAsked'
    BY <1>0, <1>1 DEF Deliver, FolderInv, RemovedWasAsked, Uid
  <2>5. FolderInv'
    BY <1>0, <1>1, <2>1, <2>2, <2>4, Zenon DEF Deliver, FolderInv
  <2> QED
    BY <1>1, <2>3, <2>5, ElsewhereKeepsWalk, Zenon DEF Deliver
<1>2. ASSUME NEW gone \in SUBSET held, gone = {} \/ \E u \in held : gone = {u},
             held' = held \ gone, throughout' = throughout \ gone,
             gone \subseteq asked', asked \subseteq asked', deleting' \subseteq asked',
             UNCHANGED <<uidnext, pager, stale>>
      PROVE  FoldersInv'
  <2>1. held \in SUBSET Nat
    BY <1>0 DEF Uid
  <2>2. Sortable(held') /\ IsFiniteSet(held')
    <3>1. CASE gone = {}
      BY <1>0, <1>2, <3>1, Zenon DEF FolderInv
    <3>2. CASE \E u \in held : gone = {u}
      BY <1>0, <1>2, <2>1, <3>2, SortableRemove, FS_RemoveElement, Zenon DEF FolderInv
    <3> QED
      BY <1>2, <3>1, <3>2, Zenon
  <2>3. RemovedWasAsked'
    BY <1>0, <1>2, Zenon DEF FolderInv, RemovedWasAsked
  <2>4. FolderInv'
    BY <1>0, <1>2, <2>2, <2>3, Zenon DEF FolderInv
  <2> QED
    BY <1>0, <1>2, <2>4, ElsewhereKeepsWalk, Zenon
<1>3. ASSUME NEW u \in 1..MaxUid, Move(u) PROVE FoldersInv'
  <2> DEFINE gone == {u} \cap held
  <2>1. held' = held \ gone /\ throughout' = throughout \ gone
    BY <1>0, <1>3, Zenon DEF Move, Without, FolderInv
  <2>2. deleting' \subseteq asked'
    BY <1>0, <1>3, Zenon DEF Move, FolderInv
  <2>3. gone \in SUBSET held /\ (gone = {} \/ \E v \in held : gone = {v})
    BY Zenon
  <2>4. gone \subseteq asked' /\ asked \subseteq asked' /\ UNCHANGED <<uidnext, pager, stale>>
    BY <1>3, Zenon DEF Move
  <2> HIDE DEF gone
  <2> QED
    BY <1>2, <2>1, <2>2, <2>3, <2>4, Zenon
<1>4. ASSUME NEW u \in 1..MaxUid, Expunge(u) PROVE FoldersInv'
  <2> DEFINE gone == {u} \cap marked \cap held
  <2>1. held' = held \ gone /\ throughout' = throughout \ gone
    BY <1>0, <1>4, Zenon DEF Expunge, Without, FolderInv
  <2>2. deleting' \subseteq asked' /\ u \in asked'
    BY <1>0, <1>4, Zenon DEF Expunge, FolderInv
  <2>3. gone \in SUBSET held /\ (gone = {} \/ \E v \in held : gone = {v})
    BY Zenon
  <2>4. gone \subseteq asked' /\ asked \subseteq asked' /\ UNCHANGED <<uidnext, pager, stale>>
    BY <1>4, <2>2, Zenon DEF Expunge
  <2> HIDE DEF gone
  <2> QED
    BY <1>2, <2>1, <2>2, <2>3, <2>4, Zenon
<1>5. ASSUME NEW u \in 1..MaxUid, MarkElsewhere(u) \/ StoreDeleted(u) \/ DeleteFails(u)
      PROVE  FoldersInv'
  <2>1. /\ UNCHANGED <<held, uidnext, pager, throughout, stale>>
        /\ asked \subseteq asked' /\ deleting' \subseteq asked'
    BY <1>0, <1>5, Zenon DEF MarkElsewhere, StoreDeleted, DeleteFails, FolderInv
  <2>2. FolderInv'
    BY <1>0, <2>1, Zenon DEF FolderInv, RemovedWasAsked
  <2> QED
    BY <1>0, <2>1, <2>2, ElsewhereKeepsWalk, Zenon
<1> QED
  BY <1>1, <1>3, <1>4, <1>5, Zenon

\* A walk through a folder, its cursor and the folder always fit together.
THEOREM FoldersInvariant == FoldersSpec => []FoldersInv
<1>1. FoldersInit => FoldersInv
  <2> SUFFICES ASSUME FoldersInit PROVE FoldersInv
    BY Zenon
  <2>1. pager.stage = "none" /\ pager.shown = <<>>
    BY Zenon DEF FoldersInit, Walk
  <2>2. FoldersType
    <3>1. pager \in [stage : {"none", "search", "fetch", "end"}, cursor : Nat,
                     ids : Seq(Uid), page : Seq(Uid), shown : Seq(Uid)]
      BY DEF FoldersInit, Walk
    <3> QED
      BY <3>1 DEF FoldersInit, FoldersType, Uid
  <2>3. Len(<<>>) = 0
    BY Zenon
  <2>4. OrderInv /\ CoverInv
    BY <2>1, <2>3 DEF OrderInv, CoverInv, NewestFirst
  <2>5. Sortable({}) /\ IsFiniteSet({})
    <3>1. IsFiniteSet({}) /\ Cardinality({}) = 0
      BY FS_EmptySet, Zenon
    <3>2. <<>> \in [1..0 -> {}] /\ Members(<<>>) = {} /\ NewestFirst(<<>>)
      BY <2>3 DEF Members, NewestFirst
    <3> QED
      BY <3>1, <3>2, Zenon DEF Sortable
  <2>6. FolderInv
    BY <2>5 DEF FoldersInit, FolderInv, RemovedWasAsked
  <2> QED
    BY <2>2, <2>4, <2>6, Zenon DEF FoldersInv
<1>2. FoldersInv /\ [FoldersNext]_foldersVars => FoldersInv'
  <2> SUFFICES ASSUME FoldersInv, [FoldersNext]_foldersVars PROVE FoldersInv'
    BY Zenon
  <2>1. CASE UNCHANGED foldersVars
    <3>1. FolderInv' /\ uidnext' \in Uid /\ held' \subseteq 1..(uidnext' - 1)
      BY <2>1, Zenon DEF foldersVars, FoldersInv, FoldersType, FolderInv, RemovedWasAsked
    <3> QED
      BY <2>1, <3>1, ElsewhereKeepsWalk, Zenon DEF foldersVars
  <2> QED
    BY <2>1, OpenStep, SearchStep, FetchStep, ShowStep, ElsewhereStep, Zenon DEF FoldersNext
<1> QED
  BY <1>1, <1>2, PTL DEF FoldersSpec

\* However messages arrive, are moved, marked and expunged while a browser
\* follows NextCursor, a walk shows no message twice and misses none that was
\* there throughout, unless its cursor was gone; and only messages that
\* somebody asked to remove leave the folder (ListMessages, Move, Delete).
THEOREM NoMessageIsLost == FoldersSpec => []NothingIsLost
<1>1. FoldersInv => NothingIsLost
  <2> SUFFICES ASSUME FoldersInv PROVE NothingIsLost
    BY Zenon
  <2>1. PICK s \in Seq(Uid) : s = pager.shown
    BY Zenon DEF FoldersInv, FoldersType
  <2>2. ASSUME NEW i \in 1..Len(s), NEW j \in 1..Len(s), i < j PROVE s[i] # s[j]
    <3>1. s[i] > s[j] /\ s[i] \in Nat /\ s[j] \in Nat
      BY <2>1, <2>2 DEF FoldersInv, OrderInv, NewestFirst, Uid
    <3> QED
      BY <3>1
  <2>3. \A i, j \in 1..Len(s) : i = j \/ i < j \/ j < i
    OBVIOUS
  <2>4. NeverTwice
    BY <2>1, <2>2, <2>3, Zenon DEF NeverTwice
  <2> QED
    BY <2>4, Zenon DEF FoldersInv, FolderInv, CoverInv, NothingIsLost, WalkIsComplete
<1> QED
  BY <1>1, FoldersInvariant, PTL
=============================================================================
