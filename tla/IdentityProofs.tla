--------------------------- MODULE IdentityProofs ---------------------------
(***************************************************************************)
(* The inductive invariant of Identity and what follows from it: the       *)
(* tables agree, no session revives, app passwords open their own mailbox  *)
(* and the mail services are told what the tables say.  For any number of  *)
(* users, mailboxes, addresses, app passwords and logins.                  *)
(***************************************************************************)
EXTENDS Identity, FiniteSetTheorems, TLAPS

-----------------------------------------------------------------------------
(* Identity: what the tables, the transaction and the server hold *)

LoginRow ==
    [state : {"new", "issued", "consumed", "resolved", "live", "over"},
     subject : Subject \cup {None}, box : Box \cup {None}]

TablesType ==
    /\ users \in [User -> UserRow \cup {None}]
    /\ buried \subseteq User \cup Subject
    /\ members \subseteq User
    /\ boxes \in [Box -> BoxRow \cup {None}]
    /\ tokens \in [Token -> TokenRow \cup {None}]
    /\ refs \in [Subject -> Box \cup {None}]

ServerType ==
    /\ logins \in [Login -> LoginRow]
    /\ tx \in Transaction \cup {None}
    /\ pending \in Projection \cup {None}
    /\ memory \in [boxes : [Address -> Entry \cup {None}], tokens : [Token -> Held \cup {None}]]
    /\ passdb \in [hosted : BOOLEAN, boxes : [Address -> Entry \cup {None}],
                   verifiers : [Address -> SUBSET Token]]
    /\ shared \in BOOLEAN
    /\ request \in Session \cup {None}

\* Who owns which mailbox.
OwnersInv ==
    /\ \A u \in User : users[u] # None =>
          \E b \in Box : /\ Owned(u) = {b}
                         /\ boxes[b].email = users[u].email
                         /\ boxes[b].enabled = users[u].active
    /\ \A b, c \in Box : Exists(b) /\ Exists(c) /\ boxes[b].email = boxes[c].email => b = c
    /\ \A u \in User : users[u] = None /\ u \notin buried => Owned(u) = {}
    /\ \A u \in User : u \in buried =>
          users[u] = None /\ \A b \in Owned(u) : ~boxes[b].enabled
    /\ \A u \in User : Exists(u) => boxes[u].owner = u
    /\ \A u \in members : users[u] # None

\* What an open transaction has read still holds: only transactions like it
\* change what it read, and what it cannot see grows in one direction.
TxInv ==
    tx # None =>
        /\ tx.op = "create" =>
              users[tx.user] = None /\ tx.user \notin buried /\ At(tx.doc.email) = {}
        /\ tx.op = "replace" =>
              /\ users[tx.user] # None
              /\ At(tx.doc.email) \subseteq Owned(tx.user)
              /\ tx.doc.subject # users[tx.user].subject =>
                    \A s \in Subject : tx.refs[s] \notin Owned(tx.user)
        /\ tx.op = "delete" =>
              /\ users[tx.user] # None /\ tx.user \notin members
              /\ tx.doc.subject = users[tx.user].subject
              /\ tx.doc.email = users[tx.user].email
              /\ ~tx.doc.active /\ tx.doc.password = None
        /\ tx.op = "adopt" =>
              /\ tx.claim \in Box /\ Exists(tx.claim) /\ boxes[tx.claim].owner = None
              /\ users[tx.user] = None /\ tx.user \notin buried
              /\ tx.doc.email = boxes[tx.claim].email
              /\ tx.doc.active = boxes[tx.claim].enabled
              /\ tx.doc.password = None
        /\ tx.op # "adopt" => pending = None
        /\ \A k \in Token : tx.tokens[k] # None =>
              /\ tokens[k] # None
              /\ tokens[k].email = tx.tokens[k].email /\ tokens[k].box = tx.tokens[k].box
        /\ \A s \in Subject : tx.refs[s] # None => refs[s] = tx.refs[s]
        /\ \A w \in tx.live :
              /\ logins[w].state \in {"live", "over"}
              /\ logins[w].state = "live" => tx.refs[logins[w].subject] # None

\* An identity is bound, or about to be bound, to a mailbox with an owner.
BindingInv ==
    /\ \A s \in Subject : refs[s] # None =>
          Exists(refs[s]) /\ boxes[refs[s]].owner \in User
    /\ \A w \in Login : logins[w].state \in {"resolved", "live"} =>
          /\ logins[w].subject \in Subject /\ logins[w].box \in Box
          /\ Exists(logins[w].box) /\ boxes[logins[w].box].owner \in User
    /\ \A w \in Login : logins[w].state = "live" => refs[logins[w].subject] = logins[w].box

\* The subject of the User whose mailbox b is.
SubjectOf(b, s) == users[boxes[b].owner] # None => users[boxes[b].owner].subject = s

SubjectInv ==
    "subject" \notin crossed =>
        /\ \A s \in Subject : refs[s] # None => SubjectOf(refs[s], s)
        /\ \A w \in Login : logins[w].state = "resolved" =>
              SubjectOf(logins[w].box, logins[w].subject)

SessionInv ==
    "session" \notin crossed =>
        \A w \in Login : logins[w].state \in {"resolved", "live"} => boxes[logins[w].box].enabled

\* An app password goes with its mailbox, and so does a request for one.
Issued == {k \in Token : tokens[k] # None}

TokenInv ==
    /\ IsFiniteSet(Issued)
    /\ "token" \notin crossed =>
          /\ \A k \in Token : tokens[k] # None =>
                Exists(tokens[k].box) /\ boxes[tokens[k].box].email = tokens[k].email
          /\ request # None => Exists(request.box) /\ boxes[request.box].email = request.email
          /\ \A e \in Address : Cardinality(Active(tokens, e)) <= MaxVerifiers

\* The daemon's directory is a copy of the memory of the identity service,
\* which holds no app password that the table does not.
PassdbInv ==
    /\ passdb.boxes = memory.boxes
    /\ shared => passdb.hosted
    /\ \A e \in Address : memory.boxes[e] # None => passdb.verifiers[e] = Active(memory.tokens, e)
    /\ \A k \in Token : memory.tokens[k] # None => tokens[k] # None

\* What the memory will hold when the pending change is projected.
AfterBoxes == IF pending = None THEN memory.boxes ELSE Projected(memory.boxes, pending)
AfterTokens == IF pending = None THEN memory.tokens ELSE ProjectedTokens(pending)

MirrorInv ==
    /\ pending # None /\ Moved(pending) => At(pending.previous) = {}
    /\ "answer" \notin crossed => AfterBoxes = Loaded.boxes
    /\ crossed \cap {"token", "answer"} = {} => AfterTokens = Loaded.tokens

IdentityInv ==
    /\ TablesType /\ ServerType /\ OwnersInv /\ TxInv /\ BindingInv /\ SubjectInv /\ SessionInv
    /\ TokenInv /\ PassdbInv /\ MirrorInv

-----------------------------------------------------------------------------
(* The tables *)

\* Rows that are there have the type of their table.
LEMMA RowTypes ==
    ASSUME TablesType
    PROVE  /\ \A b \in Box : Exists(b) => boxes[b] \in BoxRow
           /\ \A u \in User : users[u] # None => users[u] \in UserRow
           /\ \A k \in Token : tokens[k] # None => tokens[k] \in TokenRow
           /\ None \notin Box /\ None \notin User /\ None \notin Address /\ None \notin Subject
BY IdentityAssumption, Zenon DEF TablesType, Exists, Box

\* The transaction t writes the row b, which was this before.
TargetIs(t, b) ==
    /\ Target(t) = b
    /\ At(t.doc.email) \subseteq {b}
    /\ Owned(t.user) \subseteq {b}
    /\ Previous(t) = IF Exists(b) THEN boxes[b].email ELSE None
    /\ t.op = "create" =>
          ~Exists(b) /\ b = t.user /\ users[t.user] = None /\ t.user \notin buried
    /\ t.op \in {"replace", "delete"} =>
          Exists(b) /\ Owned(t.user) = {b} /\ Home(t.user) = b /\ users[t.user] # None
    /\ t.op = "adopt" =>
          /\ Exists(b) /\ boxes[b].owner = None /\ Owned(t.user) = {}
          /\ users[t.user] = None /\ t.user \notin buried
          /\ t.doc.email = boxes[b].email /\ t.doc.active = boxes[b].enabled

\* An open transaction has a mailbox to write.
LEMMA TargetFacts ==
    ASSUME TablesType, OwnersInv, TxInv, NEW t \in Transaction, tx = t
    PROVE  \E b \in Box : TargetIs(t, b)
<1>1. t # None /\ t.user \in User /\ t.op \in {"create", "replace", "delete", "adopt"}
  BY RowAssumption, Zenon DEF Transaction
<1>2. CASE t.op = "create"
  <2>1. users[t.user] = None /\ t.user \notin buried /\ At(t.doc.email) = {}
    BY <1>1, <1>2, Zenon DEF TxInv
  <2>2. Owned(t.user) = {} /\ t.user \in Box
    BY <1>1, <2>1, Zenon DEF OwnersInv, Box
  <2>3. ~Exists(t.user)
    BY <1>1, <2>2, Zenon DEF OwnersInv, Owned
  <2>4. Target(t) = t.user
    BY <1>2, <2>2, Zenon DEF Target, Home
  <2>5. QED
    BY <1>2, <2>1, <2>2, <2>3, <2>4, Zenon DEF Previous, TargetIs
<1>3. CASE t.op \in {"replace", "delete"}
  <2>1. users[t.user] # None
    BY <1>1, <1>3, Zenon DEF TxInv
  <2>2. PICK b \in Box : Owned(t.user) = {b} /\ boxes[b].email = users[t.user].email
    BY <1>1, <2>1, Zenon DEF OwnersInv
  <2>3. Exists(b)
    BY <2>2, Zenon DEF Owned
  <2>4. Home(t.user) = b
    BY <2>2, Zenon DEF Home
  <2>5. Target(t) = b
    BY <1>3, <2>4, Zenon DEF Target
  <2>6. At(t.doc.email) \subseteq {b}
    <3>1. CASE t.op = "replace"
      BY <1>1, <2>2, <3>1, Zenon DEF TxInv
    <3>2. CASE t.op = "delete"
      <4>1. t.doc.email = boxes[b].email
        BY <1>1, <2>2, <3>2, Zenon DEF TxInv
      <4>2. QED
        BY <2>3, <4>1, Zenon DEF OwnersInv, At
    <3>3. QED
      BY <1>3, <3>1, <3>2, Zenon
  <2>7. QED
    BY <1>3, <2>1, <2>2, <2>3, <2>4, <2>5, <2>6, Zenon DEF Previous, TargetIs
<1>4. CASE t.op = "adopt"
  <2> DEFINE b == t.claim
  <2>1. /\ b \in Box /\ Exists(b) /\ boxes[b].owner = None
        /\ users[t.user] = None /\ t.user \notin buried
        /\ t.doc.email = boxes[b].email /\ t.doc.active = boxes[b].enabled
    BY <1>1, <1>4, Zenon DEF TxInv
  <2>2. Owned(t.user) = {}
    BY <1>1, <2>1, Zenon DEF OwnersInv
  <2>3. At(t.doc.email) \subseteq {b}
    BY <2>1, Zenon DEF OwnersInv, At
  <2>4. Target(t) = b
    BY <1>4, Zenon DEF Target
  <2>5. QED
    BY <1>4, <2>1, <2>2, <2>3, <2>4, Zenon DEF Previous, TargetIs
<1>5. QED
  BY <1>1, <1>2, <1>3, <1>4, Zenon

\* What a commit writes to the tables of users and mailboxes.
Writes(t, b) ==
    /\ boxes' = [boxes EXCEPT ![b] = Row(t)]
    /\ Row(t) \in BoxRow
    /\ Row(t).email = t.doc.email /\ Row(t).enabled = t.doc.active /\ Row(t).owner = t.user
    /\ users' \in [User -> UserRow \cup {None}]
    /\ \A u \in User : u # t.user => users'[u] = users[u]
    /\ IF t.op = "delete"
       THEN users'[t.user] = None /\ buried' = buried \cup {t.user, t.doc.subject}
       ELSE /\ users'[t.user] \in UserRow /\ users'[t.user].subject = t.doc.subject
            /\ users'[t.user].email = t.doc.email /\ users'[t.user].active = t.doc.active
            /\ buried' = buried

\* What the row writes of a transaction leave in the tables.
LEMMA WriteFacts ==
    ASSUME TablesType, NEW t \in Transaction, NEW b \in Box, Target(t) = b, Write(t)
    PROVE  Writes(t, b)
<1>1. /\ t.user \in User /\ t.doc \in Document
  BY Zenon DEF Transaction
<1>2. /\ t.doc.email \in Address /\ t.doc.active \in BOOLEAN /\ t.doc.subject \in Subject
      /\ t.doc.password \in Password \cup {None}
  BY <1>1, Zenon DEF Document
<1>3. Exists(b) => boxes[b] \in BoxRow
  BY RowTypes, Zenon
<1>4. /\ Row(t) \in BoxRow
      /\ Row(t).email = t.doc.email /\ Row(t).enabled = t.doc.active /\ Row(t).owner = t.user
  BY <1>1, <1>2, <1>3, Zenon DEF Row, BoxRow
<1>5. boxes' = [boxes EXCEPT ![b] = Row(t)]
  BY Zenon DEF Write
<1> DEFINE new == [subject |-> t.doc.subject, email |-> t.doc.email, active |-> t.doc.active]
<1>6. new \in UserRow /\ new.subject = t.doc.subject /\ new.email = t.doc.email
      /\ new.active = t.doc.active
  BY <1>2, Zenon DEF UserRow
<1>7. users' = [users EXCEPT ![t.user] = IF t.op = "delete" THEN None ELSE new]
  BY Zenon DEF Write, WriteUser
<1>8. buried' = IF t.op = "delete" THEN buried \cup {t.user, t.doc.subject} ELSE buried
  BY Zenon DEF Write, WriteUser
<1> HIDE DEF new
<1>9. QED
  BY <1>1, <1>4, <1>5, <1>6, <1>7, <1>8, Zenon DEF Writes, TablesType

\* Who owns what, and who is at which address, after the row writes.
LEMMA OwnedAfter ==
    ASSUME TablesType, NEW t \in Transaction, NEW b \in Box, TargetIs(t, b), Writes(t, b)
    PROVE  /\ boxes' \in [Box -> BoxRow \cup {None}]
           /\ boxes'[b] = Row(t) /\ \A c \in Box : c # b => boxes'[c] = boxes[c]
           /\ Exists(b)' /\ \A c \in Box : c # b => (Exists(c)' <=> Exists(c))
           /\ \A u \in User : b \in Owned(u) => u = t.user
           /\ \A u \in User : Owned(u)' = IF u = t.user THEN {b} ELSE Owned(u)
           /\ \A e \in Address : At(e)' = IF e = t.doc.email THEN {b} ELSE At(e) \ {b}
<1>1. /\ boxes' \in [Box -> BoxRow \cup {None}]
      /\ boxes'[b] = Row(t) /\ \A c \in Box : c # b => boxes'[c] = boxes[c]
  BY Zenon DEF Writes, TablesType
<1>2. Exists(b)' /\ \A c \in Box : c # b => (Exists(c)' <=> Exists(c))
  BY <1>1, RowAssumption, Zenon DEF Exists, Writes
<1>3. \A u \in User : b \in Owned(u) => u = t.user
  <2>1. t.op \in {"create", "replace", "delete", "adopt"} /\ None \notin User
    BY RowTypes, Zenon DEF Transaction
  <2>2. QED
    BY <2>1, Zenon DEF TargetIs, Owned
<1>4. ASSUME NEW u \in User PROVE Owned(u)' = IF u = t.user THEN {b} ELSE Owned(u)
  <2>1. Row(t).owner = t.user /\ Owned(t.user) \subseteq {b}
    BY Zenon DEF Writes, TargetIs
  <2>2. QED
    BY <1>1, <1>2, <1>3, <2>1, Zenon DEF Owned
<1>5. ASSUME NEW e \in Address PROVE At(e)' = IF e = t.doc.email THEN {b} ELSE At(e) \ {b}
  <2>1. Row(t).email = t.doc.email /\ At(t.doc.email) \subseteq {b}
    BY Zenon DEF Writes, TargetIs
  <2>2. QED
    BY <1>1, <1>2, <2>1, Zenon DEF At
<1>6. QED
  BY <1>1, <1>2, <1>3, <1>4, <1>5, Zenon

\* The row writes of a transaction keep every user's one mailbox.
LEMMA WriteOwners ==
    ASSUME TablesType, OwnersInv, TxInv, NEW t \in Transaction, tx = t, NEW b \in Box,
           TargetIs(t, b), Writes(t, b), UNCHANGED members
    PROVE  OwnersInv'
<1>1. /\ t # None /\ t.user \in User /\ t.op \in {"create", "replace", "delete", "adopt"}
      /\ t.doc.subject \notin User
  BY RowAssumption, IdentityAssumption, Zenon DEF Transaction, Document
<1>2. /\ boxes'[b] = Row(t) /\ \A c \in Box : c # b => boxes'[c] = boxes[c]
      /\ Exists(b)' /\ \A c \in Box : c # b => (Exists(c)' <=> Exists(c))
      /\ \A u \in User : b \in Owned(u) => u = t.user
      /\ \A u \in User : Owned(u)' = IF u = t.user THEN {b} ELSE Owned(u)
  BY OwnedAfter, Zenon
<1>3. /\ Row(t).email = t.doc.email /\ Row(t).enabled = t.doc.active /\ Row(t).owner = t.user
      /\ \A u \in User : u # t.user => users'[u] = users[u]
      /\ t.op = "delete" =>
            users'[t.user] = None /\ buried' = buried \cup {t.user, t.doc.subject}
      /\ t.op # "delete" =>
            /\ users'[t.user] # None /\ users'[t.user].email = t.doc.email
            /\ users'[t.user].active = t.doc.active /\ buried' = buried
  BY RowAssumption, Zenon DEF Writes
<1>4. ASSUME NEW u \in User, users'[u] # None
      PROVE  \E c \in Box : /\ Owned(u)' = {c}
                            /\ boxes'[c].email = users'[u].email
                            /\ boxes'[c].enabled = users'[u].active
  <2>1. CASE u = t.user
    BY <1>2, <1>3, <1>4, <2>1, Zenon
  <2>2. CASE u # t.user
    <3>1. PICK c \in Box : /\ Owned(u) = {c} /\ boxes[c].email = users[u].email
                           /\ boxes[c].enabled = users[u].active
      BY <1>3, <1>4, <2>2 DEF OwnersInv
    <3>2. c # b
      BY <1>2, <2>2, <3>1, Zenon
    <3>3. QED
      BY <1>2, <1>3, <2>2, <3>1, <3>2, Zenon
  <2>3. QED
    BY <2>1, <2>2, Zenon
<1>5. ASSUME NEW c \in Box, NEW d \in Box, Exists(c)', Exists(d)',
             boxes'[c].email = boxes'[d].email
      PROVE  c = d
  <2>1. \A x \in Box : x # b /\ Exists(x) => boxes[x].email # t.doc.email
    BY Zenon DEF TargetIs, At
  <2>2. QED
    BY <1>2, <1>3, <1>5, <2>1 DEF OwnersInv
<1>6. ASSUME NEW u \in User, users'[u] = None, u \notin buried' PROVE Owned(u)' = {}
  BY <1>2, <1>3, <1>6 DEF OwnersInv
<1>7. ASSUME NEW u \in User, u \in buried'
      PROVE  users'[u] = None /\ \A c \in Owned(u)' : ~boxes'[c].enabled
  <2>1. CASE u = t.user /\ t.op = "delete"
    <3>1. ~t.doc.active
      BY <1>1, <2>1, Zenon DEF TxInv
    <3>2. QED
      BY <1>2, <1>3, <2>1, <3>1, Zenon
  <2>2. CASE u = t.user /\ t.op # "delete"
    BY <1>1, <1>3, <1>7, <2>2, Zenon DEF TargetIs, OwnersInv
  <2>3. CASE u # t.user
    <3>1. u \in buried
      BY <1>1, <1>3, <1>7, <2>3, Zenon
    <3>2. \A c \in Owned(u) : c \in Box /\ c # b
      BY <1>2, <2>3, Zenon DEF Owned
    <3>3. QED
      BY <1>2, <1>3, <2>3, <3>1, <3>2, Zenon DEF OwnersInv
  <2>4. QED
    BY <2>1, <2>2, <2>3, Zenon
<1>8. ASSUME NEW u \in User, Exists(u)' PROVE boxes'[u].owner = u
  <2>1. u \in Box
    BY Zenon DEF Box
  <2>2. CASE u = b
    <3>1. u = t.user
      BY <1>1, <2>1, <2>2, RowTypes DEF TargetIs, OwnersInv, Owned
    <3>2. QED
      BY <1>2, <1>3, <2>2, <3>1, Zenon
  <2>3. CASE u # b
    BY <1>2, <1>8, <2>1, <2>3, Zenon DEF OwnersInv
  <2>4. QED
    BY <2>2, <2>3, Zenon
<1>9. ASSUME NEW u \in members PROVE u \in User => users'[u] # None
  <2>1. t.op = "delete" => t.user \notin members
    BY <1>1, Zenon DEF TxInv
  <2>2. QED
    BY <1>1, <1>3, <2>1, Zenon DEF OwnersInv
<1>10. members \subseteq User
  BY Zenon DEF TablesType
<1>11. QED
  BY <1>4, <1>5, <1>6, <1>7, <1>8, <1>9, <1>10, Zenon DEF OwnersInv

-----------------------------------------------------------------------------
(* The identities and their sessions *)

\* What a commit that crosses nothing finds in the logins and identities.
LEMMA CrossingFacts ==
    ASSUME NEW t
    PROVE  /\ "session" \notin Crossings(t) /\ Disables(t) =>
                \A w \in Login : logins[w].box = Home(t.user) =>
                    /\ logins[w].state # "resolved"
                    /\ w \notin t.live => logins[w].state # "live"
           /\ "subject" \notin Crossings(t) /\ t.op = "replace"
                  /\ t.doc.subject # users[t.user].subject =>
                /\ \A w \in Login : logins[w].box = Home(t.user) => logins[w].state # "resolved"
                /\ refs[users[t.user].subject] = Home(t.user)
                      => t.refs[users[t.user].subject] = Home(t.user)
           /\ "token" \notin Crossings(t) /\ Renames(t) =>
                /\ \A k \in Token : tokens[k] # None /\ tokens[k].email = Previous(t)
                                       => t.tokens[k] # None
                /\ request # None => request.email # Previous(t)
BY Zenon DEF Crossings

\* The row writes keep identities and sessions with their mailboxes.
LEMMA WriteBindings ==
    ASSUME TablesType, ServerType, OwnersInv, TxInv, BindingInv, SubjectInv, SessionInv,
           NEW t \in Transaction, tx = t, NEW b \in Box, TargetIs(t, b), Writes(t, b),
           RevokeSessions(t), UNCHANGED refs, crossed \cup Crossings(t) \subseteq crossed'
    PROVE  BindingInv' /\ SubjectInv' /\ SessionInv'
<1>1. /\ t # None /\ t.user \in User /\ t.op \in {"create", "replace", "delete", "adopt"}
      /\ None \notin User
  BY RowAssumption, IdentityAssumption, Zenon DEF Transaction
<1>2. /\ boxes'[b] = Row(t) /\ \A c \in Box : c # b => boxes'[c] = boxes[c]
      /\ Exists(b)' /\ \A c \in Box : c # b => (Exists(c)' <=> Exists(c))
  BY OwnedAfter, Zenon
<1>3. /\ Row(t).enabled = t.doc.active /\ Row(t).owner = t.user
      /\ \A u \in User : u # t.user => users'[u] = users[u]
      /\ t.op = "delete" => users'[t.user] = None
      /\ t.op # "delete" => users'[t.user].subject = t.doc.subject
  BY Zenon DEF Writes
<1>4. \A c \in Box : Exists(c) /\ boxes[c].owner \in User =>
         /\ Exists(c)' /\ boxes'[c].owner = boxes[c].owner
         /\ c = b => t.op \in {"replace", "delete"} /\ boxes[c].owner = t.user
         /\ c # b => boxes[c].owner # t.user
  <2>1. \A c \in Box : Exists(c) /\ boxes[c].owner = t.user => c = b
    BY Zenon DEF TargetIs, Owned
  <2>2. Exists(b) /\ boxes[b].owner \in User =>
          t.op \in {"replace", "delete"} /\ boxes[b].owner = t.user
    BY <1>1, Zenon DEF TargetIs, Owned
  <2>3. QED
    BY <1>2, <1>3, <2>1, <2>2, Zenon
<1>5. \A w \in Login : logins'[w].state \in {"resolved", "live"} => logins'[w] = logins[w]
  <2>1. Over.state = "over"
    BY Zenon DEF Over, Fresh
  <2>2. \A w \in Login : logins'[w] \in {Over, logins[w]}
    BY Zenon DEF RevokeSessions
  <2>3. QED
    BY <2>1, <2>2, Zenon
<1>6. \A s \in Subject : refs[s] # None =>
         refs[s] \in Box /\ Exists(refs[s]) /\ boxes[refs[s]].owner \in User
  BY Zenon DEF BindingInv, TablesType
<1>7. \A w \in Login : logins[w].state \in {"resolved", "live"} =>
         /\ logins[w].subject \in Subject /\ logins[w].box \in Box
         /\ Exists(logins[w].box) /\ boxes[logins[w].box].owner \in User
  BY Zenon DEF BindingInv
<1>8. BindingInv'
  <2>1. \A s \in Subject : refs[s] # None => Exists(refs[s])' /\ boxes'[refs[s]].owner \in User
    BY <1>4, <1>6, Zenon
  <2>2. \A w \in Login : logins'[w].state \in {"resolved", "live"} =>
          /\ logins'[w].subject \in Subject /\ logins'[w].box \in Box
          /\ Exists(logins[w].box)' /\ boxes'[logins'[w].box].owner \in User
    BY <1>4, <1>5, <1>7
  <2>3. \A w \in Login : logins'[w].state = "live" => refs[logins'[w].subject] = logins'[w].box
    BY <1>5, Zenon DEF BindingInv
  <2>4. QED
    BY <1>5, <2>1, <2>2, <2>3, Zenon DEF BindingInv, Exists
<1>9. SubjectInv'
  <2>1. SUFFICES ASSUME "subject" \notin crossed'
                 PROVE  /\ \A s \in Subject : refs'[s] # None => SubjectOf(refs[s], s)'
                        /\ \A w \in Login : logins'[w].state = "resolved" =>
                              SubjectOf(logins[w].box, logins[w].subject)'
    BY Zenon DEF SubjectInv, SubjectOf
  <2>2. "subject" \notin crossed /\ "subject" \notin Crossings(t)
    BY <2>1, Zenon
  <2>3. ASSUME NEW c \in Box, Exists(c), boxes[c].owner \in User, NEW s \in Subject,
               SubjectOf(c, s),
               \/ \E w \in Login : logins[w].state = "resolved" /\ logins[w].box = c
               \/ refs[s] = c
        PROVE  users'[boxes'[c].owner] # None => users'[boxes'[c].owner].subject = s
    <3>1. CASE c # b
      BY <1>3, <1>4, <2>3, <3>1, Zenon DEF SubjectOf
    <3>2. CASE c = b /\ t.op = "delete"
      BY <1>3, <1>4, <2>3, <3>2, Zenon
    <3>3. CASE c = b /\ t.op # "delete"
      <4>1. /\ t.op = "replace" /\ boxes[c].owner = t.user /\ users[t.user].subject = s
            /\ Home(t.user) = b /\ Owned(t.user) = {b} /\ users[t.user] # None
        BY <1>4, <2>3, <3>3, Zenon DEF TargetIs, SubjectOf
      <4>2. t.doc.subject = users[t.user].subject
        <5>1. SUFFICES ASSUME t.doc.subject # users[t.user].subject PROVE FALSE
          BY Zenon
        <5>2. t.refs[s] # b
          BY <1>1, <4>1, <5>1, Zenon DEF TxInv
        <5>3. QED
          BY <2>2, <2>3, <3>3, <4>1, <5>1, <5>2, CrossingFacts, Zenon
      <4>3. QED
        BY <1>3, <1>4, <2>3, <3>3, <4>1, <4>2, Zenon
    <3>4. QED
      BY <3>1, <3>2, <3>3, Zenon
  <2>4. ASSUME NEW s \in Subject, refs[s] # None PROVE SubjectOf(refs[s], s)'
    BY <1>6, <2>2, <2>3, <2>4, Zenon DEF SubjectInv, SubjectOf
  <2>5. ASSUME NEW w \in Login, logins'[w].state = "resolved"
        PROVE  SubjectOf(logins[w].box, logins[w].subject)'
    <3>1. logins'[w] = logins[w] /\ logins[w].state = "resolved"
      BY <1>5, <2>5, Zenon
    <3>2. SubjectOf(logins[w].box, logins[w].subject)
      BY <2>2, <3>1, Zenon DEF SubjectInv
    <3>3. QED
      BY <1>7, <2>3, <3>1, <3>2, Zenon DEF SubjectOf
  <2>6. QED
    BY <2>4, <2>5, Zenon
<1>10. SessionInv'
  <2>1. SUFFICES ASSUME "session" \notin crossed', NEW w \in Login,
                        logins'[w].state \in {"resolved", "live"}
                 PROVE  boxes'[logins'[w].box].enabled
    BY Zenon DEF SessionInv
  <2>2. /\ logins'[w] = logins[w] /\ logins[w].state \in {"resolved", "live"}
        /\ "session" \notin crossed /\ "session" \notin Crossings(t)
    BY <1>5, <2>1, Zenon
  <2> DEFINE c == logins[w].box
  <2>3. /\ c \in Box /\ Exists(c) /\ boxes[c].owner \in User /\ boxes[c].enabled
        /\ logins[w].subject \in Subject
    BY <1>7, <2>2, Zenon DEF SessionInv
  <2>4. CASE c # b
    BY <1>2, <2>2, <2>3, <2>4, Zenon
  <2>5. CASE c = b /\ t.doc.active
    BY <1>2, <1>3, <2>2, <2>5, Zenon
  <2>6. CASE c = b /\ ~t.doc.active
    <3>1. /\ Disables(t) /\ Home(t.user) = b /\ Owned(t.user) = {b}
      BY <1>4, <2>3, <2>6, Zenon DEF Disables, TargetIs
    <3>2. logins[w].state = "live" /\ w \in t.live
      BY <2>2, <2>6, <3>1, CrossingFacts, Zenon
    <3>3. t.refs[logins[w].subject] # None /\ refs[logins[w].subject] = t.refs[logins[w].subject]
      BY <1>1, <2>3, <3>2, Zenon DEF TxInv
    <3>4. t.refs[logins[w].subject] \in Owned(t.user)
      BY <2>6, <3>1, <3>2, <3>3, Zenon DEF BindingInv
    <3>5. logins'[w] = Over
      BY <3>1, <3>2, <3>4, Zenon DEF RevokeSessions
    <3>6. QED
      BY <2>1, <3>5 DEF Over, Fresh
  <2>7. QED
    BY <2>4, <2>5, <2>6, Zenon
<1>11. QED
  BY <1>8, <1>9, <1>10, Zenon

-----------------------------------------------------------------------------
(* The app passwords *)

\* A subset of few app passwords is few.
LEMMA FewerAreFew ==
    ASSUME NEW S, IsFiniteSet(S), Cardinality(S) <= MaxVerifiers, NEW T \in SUBSET S
    PROVE  Cardinality(T) <= MaxVerifiers
<1>1. Cardinality(S) \in Nat /\ Cardinality(T) \in Nat /\ Cardinality(T) <= Cardinality(S)
  BY FS_Subset, FS_CardinalityType, Zenon
<1>2. QED
  BY <1>1, IdentityAssumption

\* The app passwords of an address are finitely many.
LEMMA ActiveIsFinite ==
    ASSUME IsFiniteSet(Issued), NEW e
    PROVE  IsFiniteSet(Active(tokens, e))
<1>1. Active(tokens, e) \subseteq Issued
  BY Zenon DEF Active, Issued
<1>2. QED
  BY <1>1, FS_Subset, Zenon

\* The app passwords after a commit: those of the old address that the
\* transaction could see have the new one.
LEMMA MovedTokens ==
    ASSUME TablesType, TxInv, NEW t \in Transaction, tx = t, MoveTokens(t)
    PROVE  /\ tokens' \in [Token -> TokenRow \cup {None}]
           /\ \A k \in Token : tokens'[k] # None <=> tokens[k] # None
           /\ \A k \in Token : tokens[k] # None =>
                 /\ tokens'[k].box = tokens[k].box /\ tokens'[k].revoked = tokens[k].revoked
                 /\ tokens'[k].email =
                       IF Renames(t) /\ tokens[k].email = Previous(t) /\ t.tokens[k] # None
                       THEN t.doc.email ELSE tokens[k].email
<1>1. t # None /\ t.doc.email \in Address
  BY RowAssumption, Zenon DEF Transaction, Document
<1>2. \A k \in Token : t.tokens[k] # None =>
         tokens[k] # None /\ tokens[k].email = t.tokens[k].email
  BY <1>1, Zenon DEF TxInv
<1>3. \A k \in Token : tokens[k] # None => tokens[k] \in TokenRow
  BY RowTypes, Zenon
<1> DEFINE goes(k) == Renames(t) /\ t.tokens[k] # None /\ t.tokens[k].email = Previous(t)
<1>4. tokens' = [k \in Token |->
               IF goes(k) THEN [email |-> t.doc.email, revoked |-> tokens[k].revoked,
                                box |-> tokens[k].box]
               ELSE tokens[k]]
  BY Zenon DEF MoveTokens
<1>5. \A k \in Token : goes(k) =>
         /\ tokens[k] \in TokenRow /\ tokens[k].email = Previous(t)
         /\ tokens'[k] = [email |-> t.doc.email, revoked |-> tokens[k].revoked,
                          box |-> tokens[k].box]
  BY <1>2, <1>3, <1>4, Zenon
<1>6. ASSUME NEW k \in Token, goes(k)
      PROVE  /\ tokens'[k] \in TokenRow /\ tokens'[k] # None
             /\ tokens'[k].email = t.doc.email /\ tokens'[k].revoked = tokens[k].revoked
             /\ tokens'[k].box = tokens[k].box
  <2>1. tokens[k].revoked \in BOOLEAN /\ tokens[k].box \in Box
    BY <1>5, <1>6, Zenon DEF TokenRow
  <2>2. tokens'[k] = [email |-> t.doc.email, revoked |-> tokens[k].revoked,
                      box |-> tokens[k].box]
    BY <1>5, <1>6, Zenon
  <2> HIDE DEF goes
  <2>3. tokens'[k] \in TokenRow
    BY <1>1, <2>1, <2>2 DEF TokenRow
  <2>4. QED
    BY <2>2, <2>3, RowAssumption
<1>7. \A k \in Token : ~goes(k) => tokens'[k] = tokens[k]
  BY <1>4, Zenon
<1>8. tokens' \in [Token -> TokenRow \cup {None}]
  <2>1. \A k \in Token : tokens'[k] \in TokenRow \cup {None}
    BY <1>6, <1>7, Zenon DEF TablesType
  <2>2. tokens' = [k \in Token |-> tokens'[k]]
    BY <1>4, Zenon
  <2>3. QED
    BY <2>1, <2>2, Zenon
<1>9. QED
  BY <1>2, <1>5, <1>6, <1>7, <1>8, Zenon

\* The row writes move app passwords with their mailbox.
LEMMA WriteTokens ==
    ASSUME TablesType, ServerType, OwnersInv, TxInv, TokenInv,
           NEW t \in Transaction, tx = t, NEW b \in Box, TargetIs(t, b), Writes(t, b),
           MoveTokens(t), UNCHANGED request, crossed \cup Crossings(t) \subseteq crossed'
    PROVE  TokenInv'
<1>1. /\ boxes'[b] = Row(t) /\ \A c \in Box : c # b => boxes'[c] = boxes[c]
      /\ Exists(b)' /\ \A c \in Box : c # b => (Exists(c)' <=> Exists(c))
  BY OwnedAfter, Zenon
<1>2. Row(t).email = t.doc.email /\ t.doc.email \in Address
  BY Zenon DEF Writes, Transaction, Document
<1>3. /\ \A k \in Token : tokens'[k] # None <=> tokens[k] # None
      /\ \A k \in Token : tokens[k] # None =>
            /\ tokens'[k].box = tokens[k].box /\ tokens'[k].revoked = tokens[k].revoked
            /\ tokens'[k].email =
                  IF Renames(t) /\ tokens[k].email = Previous(t) /\ t.tokens[k] # None
                  THEN t.doc.email ELSE tokens[k].email
  BY MovedTokens, Zenon
<1>4. IsFiniteSet(Issued')
  <2>1. Issued' = Issued
    BY <1>3, Zenon DEF Issued
  <2>2. QED
    BY <2>1, Zenon DEF TokenInv
<1>5. SUFFICES ASSUME "token" \notin crossed'
               PROVE  /\ \A k \in Token : tokens'[k] # None =>
                            /\ Exists(tokens[k].box)'
                            /\ boxes'[tokens'[k].box].email = tokens'[k].email
                      /\ request # None =>
                            Exists(request.box)' /\ boxes'[request.box].email = request.email
                      /\ \A e \in Address : Cardinality(Active(tokens', e)) <= MaxVerifiers
  BY <1>4, Zenon DEF TokenInv, Issued, Active, Exists
<1>6. /\ "token" \notin Crossings(t)
      /\ \A k \in Token : tokens[k] # None =>
            Exists(tokens[k].box) /\ boxes[tokens[k].box].email = tokens[k].email
      /\ request # None => Exists(request.box) /\ boxes[request.box].email = request.email
      /\ \A e \in Address : Cardinality(Active(tokens, e)) <= MaxVerifiers
  BY <1>5, Zenon DEF TokenInv
<1>7. /\ \A k \in Token : tokens[k] # None => tokens[k].box \in Box
      /\ request # None => request.box \in Box
  BY RowTypes, Zenon DEF ServerType, Session, TokenRow
<1>8. /\ Renames(t) => Exists(b) /\ Previous(t) = boxes[b].email /\ Previous(t) # t.doc.email
      /\ ~Renames(t) => ~Exists(b) \/ boxes[b].email = t.doc.email
      /\ Exists(b) => boxes[b].email \in Address
  <2>1. Exists(b) => boxes[b].email \in Address /\ boxes[b].email # None
    BY RowTypes, Zenon DEF BoxRow
  <2>2. QED
    BY <2>1, Zenon DEF Renames, TargetIs
<1>9. \A c \in Box : Exists(c) =>
         /\ Exists(c)'
         /\ boxes'[c].email = IF c = b THEN t.doc.email ELSE boxes[c].email
         /\ c # b => boxes[c].email # t.doc.email
         /\ c # b /\ Exists(b) => boxes[c].email # boxes[b].email
  <2>1. \A c \in Box : Exists(c) /\ boxes[c].email = t.doc.email => c = b
    BY Zenon DEF TargetIs, At
  <2>2. QED
    BY <1>1, <1>2, <2>1, Zenon DEF OwnersInv
<1>10. Renames(t) =>
          /\ \A k \in Token : tokens[k] # None /\ tokens[k].email = Previous(t)
                                 => t.tokens[k] # None
          /\ request # None => request.email # Previous(t)
  BY <1>6, CrossingFacts, Zenon
<1>11. \A k \in Token : tokens[k] # None =>
          /\ tokens'[k].email = IF tokens[k].box = b THEN t.doc.email ELSE tokens[k].email
          /\ tokens[k].email = t.doc.email => ~Renames(t)
  BY <1>3, <1>6, <1>7, <1>8, <1>9, <1>10
<1>12. ASSUME NEW k \in Token, tokens'[k] # None
       PROVE  Exists(tokens[k].box)' /\ boxes'[tokens'[k].box].email = tokens'[k].email
  <2> DEFINE c == tokens[k].box
  <2>1. tokens[k] # None /\ tokens'[k].box = c /\ c \in Box /\ Exists(c)
        /\ boxes[c].email = tokens[k].email
    BY <1>3, <1>6, <1>7, <1>12, Zenon
  <2>2. QED
    BY <1>9, <1>11, <2>1, Zenon
<1>13. ASSUME request # None
       PROVE  Exists(request.box)' /\ boxes'[request.box].email = request.email
  BY <1>6, <1>7, <1>8, <1>9, <1>10, <1>13, Zenon
<1>14. ASSUME NEW e \in Address PROVE Cardinality(Active(tokens', e)) <= MaxVerifiers
  <2>1. CASE Renames(t) /\ e = t.doc.email
    <3>1. Active(tokens', e) \subseteq Active(tokens, Previous(t))
      <4>1. ASSUME NEW k \in Active(tokens', e) PROVE k \in Active(tokens, Previous(t))
        <5>1. k \in Token /\ tokens'[k] # None /\ tokens'[k].email = e /\ ~tokens'[k].revoked
          BY <4>1, Zenon DEF Active
        <5>2. tokens[k] # None /\ ~tokens[k].revoked
          BY <1>3, <5>1, Zenon
        <5>3. tokens[k].email = Previous(t)
          BY <1>3, <1>11, <2>1, <5>1, <5>2, Zenon
        <5>4. QED
          BY <5>1, <5>2, <5>3, Zenon DEF Active
      <4>2. QED
        BY <4>1, Zenon
    <3>2. Previous(t) \in Address
      BY <1>8, <2>1, Zenon
    <3>3. QED
      BY <1>6, <3>1, <3>2, ActiveIsFinite, FewerAreFew, Zenon DEF TokenInv
  <2>2. CASE ~(Renames(t) /\ e = t.doc.email)
    <3>1. Active(tokens', e) \subseteq Active(tokens, e)
      <4>1. ASSUME NEW k \in Active(tokens', e) PROVE k \in Active(tokens, e)
        <5>1. k \in Token /\ tokens'[k] # None /\ tokens'[k].email = e /\ ~tokens'[k].revoked
          BY <4>1 DEF Active
        <5>2. tokens[k] # None /\ ~tokens[k].revoked
          BY <1>3, <5>1
        <5>3. tokens[k].email = e
          BY <1>3, <2>2, <5>1, <5>2, Zenon
        <5>4. QED
          BY <5>1, <5>2, <5>3, Zenon DEF Active
      <4>2. QED
        BY <4>1, Zenon
    <3>2. QED
      BY <1>6, <3>1, ActiveIsFinite, FewerAreFew, Zenon DEF TokenInv
  <2>3. QED
    BY <2>1, <2>2, Zenon
<1>15. QED
  BY <1>12, <1>13, <1>14, Zenon

-----------------------------------------------------------------------------
(* The server's memory *)

EntryIn(b) == [enabled |-> boxes[b].enabled, verifier |-> boxes[b].verifier]

\* What a server that starts reads from the tables.
LoadedInv ==
    /\ Loaded.boxes \in [Address -> Entry \cup {None}]
    /\ \A e \in Address : At(e) = {} => Loaded.boxes[e] = None
    /\ \A e \in Address : \A b \in At(e) : Loaded.boxes[e] = EntryIn(b)
    /\ \A b \in Box : Exists(b) => EntryIn(b) \in Entry
    /\ Loaded.tokens \in [Token -> Held \cup {None}]
    /\ \A k \in Token : tokens[k] = None => Loaded.tokens[k] = None
    /\ \A k \in Token : tokens[k] # None =>
          Loaded.tokens[k] = [email |-> tokens[k].email, revoked |-> tokens[k].revoked]

\* The tables determine what a server that starts reads.
LEMMA LoadedFacts == TablesType /\ OwnersInv => LoadedInv
<1> SUFFICES ASSUME TablesType, OwnersInv PROVE LoadedInv
  BY Zenon
<1>1. \A b \in Box : Exists(b) => EntryIn(b) \in Entry
  BY RowTypes, Zenon DEF EntryIn, Entry, BoxRow
<1> DEFINE entry(e) == IF At(e) = {} THEN None
                       ELSE LET b == CHOOSE b \in At(e) : TRUE
                            IN  [enabled |-> boxes[b].enabled, verifier |-> boxes[b].verifier]
<1> DEFINE held(k) == IF tokens[k] = None THEN None
                      ELSE [email |-> tokens[k].email, revoked |-> tokens[k].revoked]
<1>2. Loaded.boxes = [e \in Address |-> entry(e)] /\ Loaded.tokens = [k \in Token |-> held(k)]
  BY Zenon DEF Loaded
<1>3. ASSUME NEW e \in Address, NEW b \in At(e) PROVE entry(e) = EntryIn(b)
  <2>1. At(e) = {b}
    BY <1>3, Zenon DEF OwnersInv, At
  <2>2. (CHOOSE c \in At(e) : TRUE) = b
    BY <2>1, Zenon
  <2>3. QED
    BY <2>1, <2>2, Zenon DEF EntryIn
<1>4. \A e \in Address : At(e) = {} => entry(e) = None
  BY Zenon
<1>5. \A e \in Address : entry(e) \in Entry \cup {None}
  <2>1. \A e \in Address : \A b \in At(e) : b \in Box /\ Exists(b)
    BY Zenon DEF At
  <2> HIDE DEF entry
  <2>2. QED
    BY <1>1, <1>3, <1>4, <2>1, Zenon
<1>6. \A k \in Token : held(k) \in Held \cup {None}
  BY RowTypes, Zenon DEF Held, TokenRow
<1> HIDE DEF entry
<1>7. QED
  BY <1>1, <1>2, <1>3, <1>4, <1>5, <1>6, Zenon DEF LoadedInv

\* The same in the next state.
LEMMA LoadedFactsNext == (TablesType /\ OwnersInv => LoadedInv)'
BY LoadedFacts, PTL

\* A commit of SCIM leaves a change to project, and the memory with the change
\* projected is what the tables now hold.
LEMMA CommitMirror ==
    ASSUME TablesType, ServerType, OwnersInv, TxInv, MirrorInv, TablesType', OwnersInv',
           NEW t \in Transaction, tx = t, NEW b \in Box, TargetIs(t, b), Writes(t, b),
           MoveTokens(t), t.op # "adopt", UNCHANGED memory,
           pending' = [previous |-> Previous(t), row |-> Row(t)],
           crossed' = crossed \cup Crossings(t)
    PROVE  MirrorInv'
<1>1. LoadedInv /\ LoadedInv'
  BY LoadedFacts, LoadedFactsNext, Zenon
<1>2. /\ t # None /\ pending = None
  BY RowAssumption, Zenon DEF TxInv
<1>3. /\ pending'.previous = Previous(t) /\ pending'.row = Row(t) /\ pending' # None
  <2>1. Previous(t) \in Address \cup {None}
    BY RowTypes, Zenon DEF TargetIs, BoxRow
  <2>2. pending' \in Projection
    BY <2>1, Zenon DEF Writes, Projection
  <2>3. QED
    BY <2>2, RowAssumption, Zenon
<1>4. /\ boxes'[b] = Row(t) /\ \A c \in Box : c # b => boxes'[c] = boxes[c]
      /\ \A e \in Address : At(e)' = IF e = t.doc.email THEN {b} ELSE At(e) \ {b}
      /\ Row(t).email = t.doc.email /\ Row(t).enabled = t.doc.active /\ t.doc.email \in Address
  BY OwnedAfter, Zenon DEF Writes, Transaction, Document
<1>5. /\ Moved(pending)' <=> Renames(t)
      /\ Renames(t) => Exists(b) /\ Previous(t) = boxes[b].email /\ Previous(t) # t.doc.email
      /\ ~Renames(t) => ~Exists(b) \/ boxes[b].email = t.doc.email
      /\ Exists(b) => /\ boxes[b].email \in Address /\ At(boxes[b].email) = {b}
                      /\ Previous(t) = boxes[b].email
      /\ ~Exists(b) => Previous(t) = None
  <2>1. Exists(b) => boxes[b].email \in Address /\ boxes[b].email # None
    BY RowTypes, Zenon DEF BoxRow
  <2>2. Exists(b) => At(boxes[b].email) = {b}
    BY Zenon DEF OwnersInv, At
  <2>3. QED
    BY <1>3, <1>4, <2>1, <2>2, Zenon DEF Renames, TargetIs, Moved
<1>6. Moved(pending)' => At(pending.previous)' = {}
  <2>1. SUFFICES ASSUME Renames(t) PROVE At(Previous(t)) \ {b} = {}
    BY <1>3, <1>4, <1>5 DEF At, Exists
  <2>2. QED
    BY <1>5, <2>1, Zenon
<1>7. ASSUME "answer" \notin crossed' PROVE AfterBoxes' = Loaded.boxes'
  <2>1. memory.boxes = Loaded.boxes
    BY <1>2, <1>7, Zenon DEF MirrorInv, AfterBoxes
  <2> DEFINE known == IF Previous(t) = None THEN None ELSE memory.boxes[Previous(t)]
  <2> DEFINE entry == [enabled |-> Row(t).enabled,
                       verifier |-> IF Row(t).verifier = None /\ known # None
                                    THEN known.verifier ELSE Row(t).verifier]
  <2>2. AfterBoxes' = [e \in Address |->
            IF e = t.doc.email THEN entry
            ELSE IF Renames(t) /\ e = Previous(t) THEN None ELSE memory.boxes[e]]
    BY <1>3, <1>4, <1>5, Zenon DEF AfterBoxes, Projected, EntryOf
  <2>3. entry = [enabled |-> Row(t).enabled, verifier |-> Row(t).verifier]
    <3>1. ASSUME Row(t).verifier = None, known # None PROVE known.verifier = None
      <4>1. Exists(b) /\ known = Loaded.boxes[boxes[b].email]
        BY <1>5, <2>1, <3>1, Zenon
      <4>2. known = EntryIn(b)
        <5>1. boxes[b].email \in Address /\ b \in At(boxes[b].email)
          BY <1>5, <4>1, Zenon
        <5>2. Loaded.boxes[boxes[b].email] = EntryIn(b)
          BY <1>1, <5>1, Zenon DEF LoadedInv
        <5>3. QED
          BY <4>1, <5>2, Zenon
      <4>3. boxes[b].verifier = None
        <5>1. t.doc.password \in Password \cup {None} /\ None \notin Password
          BY IdentityAssumption, Zenon DEF Transaction, Document
        <5>2. Row(t).verifier = IF t.doc.password = None THEN boxes[b].verifier ELSE t.doc.password
          BY <4>1, Zenon DEF Row, TargetIs
        <5>3. QED
          BY <3>1, <5>1, <5>2, Zenon
      <4>4. QED
        BY <4>2, <4>3 DEF EntryIn
    <3>2. QED
      BY <3>1, Zenon
  <2>4. entry = EntryIn(b)'
    BY <1>4, <2>3, Zenon DEF EntryIn
  <2> HIDE DEF entry, known
  <2>5. ASSUME NEW e \in Address PROVE AfterBoxes'[e] = Loaded.boxes'[e]
    <3>1. CASE e = t.doc.email
      BY <1>1, <1>4, <2>2, <2>4, <3>1, Zenon DEF LoadedInv
    <3>2. CASE e # t.doc.email /\ Renames(t) /\ e = Previous(t)
      BY <1>1, <1>4, <1>5, <2>2, <3>2, Zenon DEF LoadedInv
    <3>3. CASE e # t.doc.email /\ ~(Renames(t) /\ e = Previous(t))
      <4>1. b \notin At(e)
        BY <1>5, <3>3, Zenon DEF At
      <4>2. At(e)' = At(e)
        BY <1>4, <3>3, <4>1
      <4>3. AfterBoxes'[e] = Loaded.boxes[e]
        BY <2>1, <2>2, <3>3, Zenon
      <4>4. CASE At(e) = {}
        BY <1>1, <4>2, <4>3, <4>4, Zenon DEF LoadedInv
      <4>5. CASE At(e) # {}
        <5>1. PICK c \in At(e) : TRUE
          BY <4>5, Zenon
        <5>2. c \in Box /\ c # b
          BY <4>1, <5>1, Zenon DEF At
        <5>3. EntryIn(c)' = EntryIn(c)
          BY <1>4, <5>2, Zenon DEF EntryIn
        <5>4. Loaded.boxes[e] = EntryIn(c) /\ Loaded.boxes'[e] = EntryIn(c)'
          BY <1>1, <4>2, <5>1, Zenon DEF LoadedInv
        <5>5. QED
          BY <4>3, <5>3, <5>4, Zenon
      <4>6. QED
        BY <4>4, <4>5, Zenon
    <3>4. QED
      BY <3>1, <3>2, <3>3, Zenon
  <2>6. Loaded.boxes' = [e \in Address |-> Loaded.boxes'[e]]
    BY <1>1, Zenon DEF LoadedInv
  <2>7. AfterBoxes' = [e \in Address |-> AfterBoxes'[e]]
    BY <2>2, Zenon
  <2>8. QED
    BY <2>5, <2>6, <2>7, Zenon
<1>8. ASSUME crossed' \cap {"token", "answer"} = {} PROVE AfterTokens' = Loaded.tokens'
  <2>1. memory.tokens = Loaded.tokens /\ "token" \notin Crossings(t)
    BY <1>2, <1>8, Zenon DEF MirrorInv, AfterTokens
  <2>2. AfterTokens' = [k \in Token |->
            IF Renames(t) /\ memory.tokens[k] # None /\ memory.tokens[k].email = Previous(t)
            THEN [email |-> t.doc.email, revoked |-> memory.tokens[k].revoked]
            ELSE memory.tokens[k]]
    BY <1>3, <1>4, <1>5, Zenon DEF AfterTokens, ProjectedTokens
  <2>3. /\ \A k \in Token : tokens'[k] # None <=> tokens[k] # None
        /\ \A k \in Token : tokens[k] # None =>
              /\ tokens'[k].revoked = tokens[k].revoked
              /\ tokens'[k].email = IF Renames(t) /\ tokens[k].email = Previous(t)
                                    THEN t.doc.email ELSE tokens[k].email
    BY <2>1, MovedTokens, CrossingFacts, Zenon
  <2>4. ASSUME NEW k \in Token PROVE AfterTokens'[k] = Loaded.tokens'[k]
    <3>1. CASE tokens[k] = None
      <4>1. memory.tokens[k] = None /\ Loaded.tokens'[k] = None
        BY <1>1, <2>1, <2>3, <3>1, Zenon DEF LoadedInv
      <4>2. QED
        BY <2>2, <4>1, Zenon
    <3>2. CASE tokens[k] # None
      <4>1. /\ memory.tokens[k] = [email |-> tokens[k].email, revoked |-> tokens[k].revoked]
            /\ Loaded.tokens'[k] = [email |-> tokens'[k].email, revoked |-> tokens'[k].revoked]
        BY <1>1, <2>1, <2>3, <3>2, Zenon DEF LoadedInv
      <4>2. memory.tokens[k] # None
        BY <1>1, <2>1, <3>2, <4>1, RowTypes, RowAssumption DEF Held, TokenRow
      <4>3. memory.tokens[k].email = tokens[k].email /\ memory.tokens[k].revoked = tokens[k].revoked
        BY <4>1
      <4>4. QED
        BY <2>2, <2>3, <3>2, <4>1, <4>2, <4>3, Zenon
    <3>3. QED
      BY <3>1, <3>2, Zenon
  <2>5. Loaded.tokens' = [k \in Token |-> Loaded.tokens'[k]]
    BY <1>1, Zenon DEF LoadedInv
  <2>6. AfterTokens' = [k \in Token |-> AfterTokens'[k]]
    BY <2>2, Zenon
  <2>7. QED
    BY <2>4, <2>5, <2>6, Zenon
<1>9. QED
  BY <1>6, <1>7, <1>8, Zenon DEF MirrorInv

\* Adopting a mailbox changes only who owns it, which the server does not keep.
LEMMA AdoptMirror ==
    ASSUME TablesType, OwnersInv, TxInv, MirrorInv, TablesType', OwnersInv',
           NEW t \in Transaction, tx = t, NEW b \in Box, TargetIs(t, b), Writes(t, b),
           MoveTokens(t), t.op = "adopt", UNCHANGED <<memory, pending>>,
           crossed \subseteq crossed'
    PROVE  MirrorInv'
<1>1. LoadedInv /\ LoadedInv'
  BY LoadedFacts, LoadedFactsNext, Zenon
<1>2. /\ boxes'[b] = Row(t) /\ \A c \in Box : c # b => boxes'[c] = boxes[c]
      /\ \A e \in Address : At(e)' = IF e = t.doc.email THEN {b} ELSE At(e) \ {b}
      /\ Row(t).email = t.doc.email /\ Row(t).enabled = t.doc.active
      /\ Exists(b) /\ t.doc.email = boxes[b].email /\ t.doc.active = boxes[b].enabled
      /\ Previous(t) = boxes[b].email
  BY OwnedAfter, ZenonT(30) DEF Writes, TargetIs
<1>3. EntryIn(b)' = EntryIn(b)
  <2>1. t.doc.password = None
    BY RowAssumption, Zenon DEF TxInv
  <2>2. Row(t).verifier = boxes[b].verifier
    BY <1>2, <2>1, Zenon DEF Row, TargetIs
  <2>3. QED
    BY <1>2, <2>2, Zenon DEF EntryIn
<1>4. ASSUME NEW e \in Address PROVE At(e)' = At(e)
  <2>1. At(t.doc.email) = {b} /\ (e # t.doc.email => b \notin At(e))
    BY <1>2, Zenon DEF At, TargetIs
  <2>2. CASE e = t.doc.email
    BY <1>2, <2>1, <2>2, Zenon
  <2>3. CASE e # t.doc.email
    <3>1. At(e)' = At(e) \ {b}
      BY <1>2, <2>3, Zenon
    <3>2. QED
      BY <2>1, <2>3, <3>1, Zenon
  <2>4. QED
    BY <2>2, <2>3, Zenon
<1>5. Loaded.boxes' = Loaded.boxes
  <2>1. ASSUME NEW e \in Address PROVE Loaded.boxes'[e] = Loaded.boxes[e]
    <3>1. CASE At(e) = {}
      BY <1>1, <1>4, <3>1, Zenon DEF LoadedInv
    <3>2. CASE At(e) # {}
      <4>1. PICK c \in At(e) : TRUE
        BY <3>2, Zenon
      <4>2. c \in Box
        BY <4>1, Zenon DEF At
      <4>3. EntryIn(c)' = EntryIn(c)
        BY <1>2, <1>3, <4>2, Zenon DEF EntryIn
      <4>4. Loaded.boxes[e] = EntryIn(c) /\ Loaded.boxes'[e] = EntryIn(c)'
        BY <1>1, <1>4, <4>1, Zenon DEF LoadedInv
      <4>5. QED
        BY <4>3, <4>4, Zenon
    <3>3. QED
      BY <3>1, <3>2, Zenon
  <2>2. /\ Loaded.boxes = [e \in Address |-> Loaded.boxes[e]]
        /\ Loaded.boxes' = [e \in Address |-> Loaded.boxes'[e]]
    BY <1>1, Zenon DEF LoadedInv
  <2>3. QED
    BY <2>1, <2>2, Zenon
<1>6. Loaded.tokens' = Loaded.tokens
  <2>1. ~Renames(t)
    BY <1>2, Zenon DEF Renames
  <2>2. tokens' = [k \in Token |-> tokens[k]]
    BY <2>1, Zenon DEF MoveTokens
  <2>3. tokens' = tokens
    BY <2>2, Zenon DEF TablesType
  <2>4. QED
    BY <2>3, Zenon DEF Loaded
<1>7. pending' # None /\ Moved(pending)' => At(pending.previous)' = {}
  <2>1. ASSUME NEW e, At(e) = {} PROVE At(e)' = {}
    <3>1. \A c \in Box : Exists(c)' => Exists(c) /\ boxes'[c].email = boxes[c].email
      BY <1>2, Zenon DEF Exists
    <3>2. QED
      BY <2>1, <3>1, Zenon DEF At
  <2>2. pending # None /\ Moved(pending) => At(pending.previous) = {}
    BY Zenon DEF MirrorInv
  <2>3. QED
    BY <2>1, <2>2, Zenon DEF Moved, At, Exists
<1>8. AfterBoxes' = AfterBoxes /\ AfterTokens' = AfterTokens
  BY Zenon DEF AfterBoxes, AfterTokens, Projected, EntryOf, Moved, ProjectedTokens
<1>9. QED
  BY <1>5, <1>6, <1>7, <1>8, Zenon DEF MirrorInv

\* A commit whose answer is lost.
LEMMA LostMirror ==
    ASSUME TablesType, OwnersInv, TxInv, MirrorInv, TablesType', OwnersInv',
           NEW t \in Transaction, tx = t, NEW b \in Box, TargetIs(t, b), Writes(t, b),
           MoveTokens(t), UNCHANGED <<memory, pending>>,
           crossed \subseteq crossed', "answer" \in crossed'
    PROVE  MirrorInv'
<1>1. CASE t.op = "adopt"
  BY <1>1, AdoptMirror, Zenon
<1>2. CASE t.op # "adopt"
  <2>1. pending = None
    BY <1>2, RowAssumption, Zenon DEF TxInv
  <2>2. QED
    BY <2>1, Zenon DEF MirrorInv
<1>3. QED
  BY <1>1, <1>2, Zenon

\* What a step that leaves the variables of a part alone leaves true.
LEMMA Frames ==
    /\ OwnersInv /\ UNCHANGED <<users, buried, members, boxes>> => OwnersInv'
    /\ BindingInv /\ UNCHANGED <<refs, logins, boxes>> => BindingInv'
    /\ SubjectInv /\ UNCHANGED <<refs, logins, boxes, users, crossed>> => SubjectInv'
    /\ SessionInv /\ UNCHANGED <<logins, boxes, crossed>> => SessionInv'
    /\ TokenInv /\ UNCHANGED <<tokens, boxes, request, crossed>> => TokenInv'
    /\ PassdbInv /\ UNCHANGED <<passdb, memory, shared, tokens>> => PassdbInv'
    /\ MirrorInv /\ UNCHANGED <<boxes, tokens, memory, pending, crossed>> => MirrorInv'
    /\ TxInv /\ UNCHANGED <<tx, users, buried, members, boxes, tokens, refs, logins, pending>>
          => TxInv'
<1>1. OwnersInv /\ UNCHANGED <<users, buried, members, boxes>> => OwnersInv'
  BY DEF OwnersInv, Owned, Exists
<1>2. BindingInv /\ UNCHANGED <<refs, logins, boxes>> => BindingInv'
  BY Zenon DEF BindingInv, Exists
<1>3. SubjectInv /\ UNCHANGED <<refs, logins, boxes, users, crossed>> => SubjectInv'
  BY Zenon DEF SubjectInv, SubjectOf
<1>4. SessionInv /\ UNCHANGED <<logins, boxes, crossed>> => SessionInv'
  BY Zenon DEF SessionInv
<1>5. TokenInv /\ UNCHANGED <<tokens, boxes, request, crossed>> => TokenInv'
  BY Zenon DEF TokenInv, Issued, Exists
<1>6. PassdbInv /\ UNCHANGED <<passdb, memory, shared, tokens>> => PassdbInv'
  BY DEF PassdbInv, Active
<1>7. MirrorInv /\ UNCHANGED <<boxes, tokens, memory, pending, crossed>> => MirrorInv'
  <2>1. UNCHANGED <<boxes, tokens, memory, pending>> =>
          /\ AfterBoxes' = AfterBoxes /\ AfterTokens' = AfterTokens
          /\ Loaded' = Loaded /\ (Moved(pending)' <=> Moved(pending))
          /\ At(pending.previous)' = At(pending.previous)
    BY Zenon DEF AfterBoxes, AfterTokens, Projected, EntryOf, Moved, ProjectedTokens, Loaded, At, Exists
  <2>2. QED
    BY <2>1, Zenon DEF MirrorInv
<1>8. TxInv /\ UNCHANGED <<tx, users, buried, members, boxes, tokens, refs, logins, pending>>
         => TxInv'
  BY DEF TxInv, At, Owned, Exists
<1>9. QED
  BY <1>1, <1>2, <1>3, <1>4, <1>5, <1>6, <1>7, <1>8, Zenon

-----------------------------------------------------------------------------
(* The steps of a transaction *)

\* The row writes keep the types of the tables.
LEMMA WriteTypes ==
    ASSUME TablesType, ServerType, TxInv, NEW t \in Transaction, tx = t, NEW b \in Box,
           TargetIs(t, b), Writes(t, b), MoveTokens(t), RevokeSessions(t),
           UNCHANGED <<members, refs>>
    PROVE  TablesType' /\ logins' \in [Login -> LoginRow]
<1>1. t.user \in User /\ t.doc.subject \in Subject
  BY Zenon DEF Transaction, Document
<1>2. users' \in [User -> UserRow \cup {None}]
  BY Zenon DEF Writes
<1>3. buried' \subseteq User \cup Subject
  BY <1>1 DEF Writes, TablesType
<1>4. boxes' \in [Box -> BoxRow \cup {None}]
  BY OwnedAfter, Zenon
<1>5. tokens' \in [Token -> TokenRow \cup {None}]
  BY MovedTokens, Zenon
<1>6. Over \in LoginRow
  BY Zenon DEF Over, Fresh, LoginRow
<1>7. logins' \in [Login -> LoginRow]
  <2>1. \A w \in Login : logins[w] \in LoginRow
    BY Zenon DEF ServerType
  <2>2. QED
    BY <1>6, <2>1, Zenon DEF RevokeSessions
<1>8. QED
  BY <1>2, <1>3, <1>4, <1>5, <1>7, Zenon DEF TablesType

\* A commit, answered or not, keeps the invariant.
LEMMA CommitStep ==
    ASSUME IdentityInv, Commit \/ CommitLost
    PROVE  IdentityInv'
<1>1. /\ TablesType /\ ServerType /\ OwnersInv /\ TxInv /\ BindingInv /\ SubjectInv
      /\ SessionInv /\ TokenInv /\ PassdbInv /\ MirrorInv
  BY Zenon DEF IdentityInv
<1>2. PICK t \in Transaction : tx = t
  BY <1>1, Zenon DEF Commit, CommitLost, ServerType
<1>3. PICK b \in Box : TargetIs(t, b)
  BY <1>1, <1>2, TargetFacts, Zenon
<1>4. Write(t)
  BY <1>2, Zenon DEF Commit, CommitLost
<1>5. /\ MoveTokens(t) /\ RevokeSessions(t)
      /\ UNCHANGED <<members, refs, memory, passdb, shared, request>>
      /\ tx' = None
  BY <1>4, Zenon DEF Write
<1>6. Target(t) = b
  BY <1>3, Zenon DEF TargetIs
<1>7. Writes(t, b)
  BY <1>1, <1>4, <1>6, WriteFacts, Zenon
<1>8. UNCHANGED members /\ UNCHANGED refs /\ UNCHANGED request /\ UNCHANGED memory
  BY <1>5, Zenon
<1>9. TablesType' /\ logins' \in [Login -> LoginRow]
  BY <1>1, <1>2, <1>3, <1>5, <1>7, WriteTypes, Zenon
<1>10. OwnersInv'
  BY <1>1, <1>2, <1>3, <1>7, <1>8, WriteOwners, Zenon
<1>11. crossed \cup Crossings(t) \subseteq crossed'
  BY <1>2, Zenon DEF Commit, CommitLost
<1>12. BindingInv' /\ SubjectInv' /\ SessionInv'
  BY <1>1, <1>2, <1>3, <1>5, <1>7, <1>8, <1>11, WriteBindings, Zenon
<1>13. TokenInv'
  BY <1>1, <1>2, <1>3, <1>5, <1>7, <1>8, <1>11, WriteTokens, Zenon
<1>14. PassdbInv'
  <2>1. \A k \in Token : tokens'[k] # None <=> tokens[k] # None
    BY <1>1, <1>2, <1>5, MovedTokens, Zenon
  <2>2. QED
    BY <1>1, <1>5, <2>1, Zenon DEF PassdbInv, Active
<1>15. TxInv'
  BY <1>5, Zenon DEF TxInv
<1>16. MirrorInv' /\ pending' \in Projection \cup {None}
  <2>1. CASE Commit /\ t.op # "adopt"
    <3>1. /\ pending' = [previous |-> Previous(t), row |-> Row(t)]
          /\ crossed' = crossed \cup Crossings(t)
      BY <1>2, <2>1, Zenon DEF Commit
    <3>2. MirrorInv'
      BY <1>1, <1>2, <1>3, <1>5, <1>7, <1>8, <1>9, <1>10, <2>1, <3>1, CommitMirror, Zenon
    <3>3. Previous(t) \in Address \cup {None} /\ Row(t) \in BoxRow
      BY <1>1, <1>3, <1>7, RowTypes, Zenon DEF TargetIs, BoxRow, Writes
    <3>4. QED
      BY <3>1, <3>2, <3>3, Zenon DEF Projection
  <2>2. CASE Commit /\ t.op = "adopt"
    <3>1. UNCHANGED <<memory, pending>> /\ crossed \subseteq crossed'
      BY <1>2, <1>8, <1>11, <2>2, Zenon DEF Commit
    <3>2. MirrorInv'
      BY <1>1, <1>2, <1>3, <1>5, <1>7, <1>9, <1>10, <2>2, <3>1, AdoptMirror, Zenon
    <3>3. QED
      BY <1>1, <3>1, <3>2, Zenon DEF ServerType
  <2>3. CASE CommitLost
    <3>1. UNCHANGED <<memory, pending>> /\ crossed \subseteq crossed' /\ "answer" \in crossed'
      BY <1>8, <2>3, Zenon DEF CommitLost
    <3>2. MirrorInv'
      BY <1>1, <1>2, <1>3, <1>5, <1>7, <1>9, <1>10, <3>1, LostMirror, Zenon
    <3>3. QED
      BY <1>1, <3>1, <3>2, Zenon DEF ServerType
  <2>4. QED
    BY <2>1, <2>2, <2>3, Zenon
<1>17. ServerType'
  BY <1>1, <1>5, <1>9, <1>16, Zenon DEF ServerType
<1>18. QED
  BY <1>9, <1>10, <1>12, <1>13, <1>14, <1>15, <1>16, <1>17, Zenon DEF IdentityInv

\* A transaction has read what the tables held when it began.
LEMMA BeginFacts ==
    ASSUME TablesType, ServerType, BindingInv,
           NEW op \in {"create", "replace", "delete", "adopt"}, NEW u \in User,
           NEW doc \in Document, NEW c \in Box \cup {None}, Begin(op, u, doc, c)
    PROVE  /\ tx' \in Transaction
           /\ tx'.op = op /\ tx'.user = u /\ tx'.doc = doc /\ tx'.claim = c
           /\ tx'.tokens = tokens /\ tx'.refs = refs
           /\ \A w \in tx'.live :
                 /\ w \in Login /\ logins[w].state = "live"
                 /\ tx'.refs[logins[w].subject] # None
           /\ UNCHANGED <<database, server, logins, crossed>>
<1> DEFINE live == {w \in Login : logins[w].state = "live"}
<1>1. /\ tx' = [op |-> op, user |-> u, doc |-> doc, claim |-> c, tokens |-> tokens,
               live |-> live, refs |-> refs]
      /\ UNCHANGED <<database, server, logins, crossed>>
  BY Zenon DEF Begin, Snapshot
<1>2. live \subseteq Login /\ \A w \in live : logins[w].state = "live"
  BY Zenon
<1> HIDE DEF live
<1>3. tx' \in Transaction
  BY <1>1, <1>2, Zenon DEF Transaction, TablesType
<1>4. /\ tx'.op = op /\ tx'.user = u /\ tx'.doc = doc /\ tx'.claim = c
      /\ tx'.tokens = tokens /\ tx'.refs = refs /\ tx'.live = live
  BY <1>1, Zenon
<1>5. \A w \in live : refs[logins[w].subject] # None
  <2>1. None \notin Box
    BY RowTypes, Zenon
  <2>2. QED
    BY <1>2, <2>1, Zenon DEF BindingInv
<1>6. QED
  BY <1>1, <1>2, <1>3, <1>4, <1>5, Zenon

\* What a transaction has made sure of when it begins.
Checked(op, u, doc, c) ==
    /\ op = "create" => users[u] = None /\ u \notin buried /\ At(doc.email) = {}
    /\ op = "replace" =>
          /\ users[u] # None
          /\ At(doc.email) \subseteq Owned(u)
          /\ doc.subject # users[u].subject => \A s \in Subject : refs[s] \notin Owned(u)
    /\ op = "delete" =>
          /\ users[u] # None /\ u \notin members
          /\ doc.subject = users[u].subject /\ doc.email = users[u].email
          /\ ~doc.active /\ doc.password = None
    /\ op = "adopt" =>
          /\ c \in Box /\ Exists(c) /\ boxes[c].owner = None
          /\ users[u] = None /\ u \notin buried
          /\ doc.email = boxes[c].email /\ doc.active = boxes[c].enabled /\ doc.password = None
    /\ op # "adopt" => pending = None

\* A transaction whose checks passed keeps the invariant.
LEMMA BegunStep ==
    ASSUME IdentityInv, NEW op \in {"create", "replace", "delete", "adopt"}, NEW u \in User,
           NEW doc \in Document, NEW c \in Box \cup {None}, Begin(op, u, doc, c),
           Checked(op, u, doc, c)
    PROVE  IdentityInv'
<1>1. /\ TablesType /\ ServerType /\ OwnersInv /\ BindingInv /\ SubjectInv
      /\ SessionInv /\ TokenInv /\ PassdbInv /\ MirrorInv
  BY Zenon DEF IdentityInv
<1>2. /\ tx' \in Transaction
      /\ tx'.op = op /\ tx'.user = u /\ tx'.doc = doc /\ tx'.claim = c
      /\ tx'.tokens = tokens /\ tx'.refs = refs
      /\ \A w \in tx'.live :
            /\ w \in Login /\ logins[w].state = "live"
            /\ tx'.refs[logins[w].subject] # None
      /\ UNCHANGED <<database, server, logins, crossed>>
  BY <1>1, BeginFacts, Zenon
<1>3. /\ UNCHANGED <<users, buried, members, boxes, tokens, refs>>
      /\ UNCHANGED <<pending, memory, passdb, shared, request, logins, crossed>>
  BY <1>2, Zenon DEF database, server
<1>4. TxInv'
  <2>1. At(doc.email)' = At(doc.email) /\ Owned(u)' = Owned(u) /\ (Exists(c)' <=> Exists(c))
    BY <1>3, Zenon DEF At, Owned, Exists
  <2>2. At(tx.doc.email)' = At(doc.email) /\ Owned(tx.user)' = Owned(u)
        /\ (Exists(tx.claim)' <=> Exists(c))
    BY <1>2, <2>1, Zenon DEF At, Owned, Exists
  <2>3. /\ tx'.op = "create" =>
              users'[tx'.user] = None /\ tx'.user \notin buried' /\ At(tx.doc.email)' = {}
        /\ tx'.op = "replace" =>
              /\ users'[tx'.user] # None
              /\ At(tx.doc.email)' \subseteq Owned(tx.user)'
              /\ tx'.doc.subject # users'[tx'.user].subject =>
                    \A s \in Subject : tx'.refs[s] \notin Owned(tx.user)'
    BY <1>2, <1>3, <2>2, Zenon DEF Checked
  <2>4. /\ tx'.op = "delete" =>
              /\ users'[tx'.user] # None /\ tx'.user \notin members'
              /\ tx'.doc.subject = users'[tx'.user].subject
              /\ tx'.doc.email = users'[tx'.user].email
              /\ ~tx'.doc.active /\ tx'.doc.password = None
        /\ tx'.op = "adopt" =>
              /\ tx'.claim \in Box /\ Exists(tx.claim)' /\ boxes'[tx'.claim].owner = None
              /\ users'[tx'.user] = None /\ tx'.user \notin buried'
              /\ tx'.doc.email = boxes'[tx'.claim].email
              /\ tx'.doc.active = boxes'[tx'.claim].enabled
              /\ tx'.doc.password = None
        /\ tx'.op # "adopt" => pending' = None
    BY <1>2, <1>3, <2>2, Zenon DEF Checked
  <2>5. /\ \A k \in Token : tx'.tokens[k] # None =>
              /\ tokens'[k] # None
              /\ tokens'[k].email = tx'.tokens[k].email /\ tokens'[k].box = tx'.tokens[k].box
        /\ \A s \in Subject : tx'.refs[s] # None => refs'[s] = tx'.refs[s]
        /\ \A w \in tx'.live :
              /\ logins'[w].state \in {"live", "over"}
              /\ logins'[w].state = "live" => tx'.refs[logins'[w].subject] # None
    BY <1>2, <1>3, Zenon
  <2>6. QED
    BY <2>3, <2>4, <2>5, Zenon DEF TxInv
<1>5. TablesType'
  BY <1>1, <1>3, Zenon DEF TablesType
<1>6. ServerType'
  BY <1>1, <1>2, <1>3, Zenon DEF ServerType
<1>7. /\ OwnersInv' /\ BindingInv' /\ SubjectInv' /\ SessionInv' /\ TokenInv' /\ PassdbInv'
      /\ MirrorInv'
  BY <1>1, <1>3, Frames, Zenon
<1>8. QED
  BY <1>4, <1>5, <1>6, <1>7, Zenon DEF IdentityInv

\* Each operation makes the checks its transaction needs.
LEMMA BeginStep ==
    ASSUME IdentityInv, NEW u \in User,
           \/ \E doc \in Document : BeginCreate(u, doc) \/ BeginReplace(u, doc)
           \/ BeginDelete(u)
           \/ \E b \in Box, s \in Subject : BeginAdopt(u, b, s)
    PROVE  IdentityInv'
<1>1. TablesType /\ OwnersInv
  BY Zenon DEF IdentityInv
<1>2. None \in Box \cup {None} /\ None \in Password \cup {None}
  BY Zenon
<1>3. ASSUME NEW doc \in Document, BeginCreate(u, doc) PROVE IdentityInv'
  <2>1. Begin("create", u, doc, None) /\ Checked("create", u, doc, None)
    BY <1>3, Zenon DEF BeginCreate, Unreserved, Checked
  <2>2. QED
    BY <1>2, <2>1, BegunStep, Zenon
<1>4. ASSUME NEW doc \in Document, BeginReplace(u, doc) PROVE IdentityInv'
  <2>1. Begin("replace", u, doc, None) /\ Checked("replace", u, doc, None)
    BY <1>4, Zenon DEF BeginReplace, Checked
  <2>2. QED
    BY <1>2, <2>1, BegunStep, Zenon
<1>5. ASSUME BeginDelete(u) PROVE IdentityInv'
  <2> DEFINE doc == [subject |-> users[u].subject, email |-> users[u].email,
                     active |-> FALSE, password |-> None]
  <2>1. users[u] \in UserRow
    BY <1>1, <1>5, RowTypes, Zenon DEF BeginDelete
  <2>2. /\ doc \in Document
        /\ doc.subject = users[u].subject /\ doc.email = users[u].email
        /\ ~doc.active /\ doc.password = None
    BY <2>1, Zenon DEF UserRow, Document
  <2>3. /\ Begin("delete", u, doc, None)
        /\ users[u] # None /\ u \notin members /\ pending = None
    BY <1>5, Zenon DEF BeginDelete
  <2> HIDE DEF doc
  <2>4. Checked("delete", u, doc, None)
    BY <2>2, <2>3, Zenon DEF Checked
  <2>5. QED
    BY <1>2, <2>2, <2>3, <2>4, BegunStep, Zenon
<1>6. ASSUME NEW b \in Box, NEW s \in Subject, BeginAdopt(u, b, s) PROVE IdentityInv'
  <2> DEFINE doc == [subject |-> s, email |-> boxes[b].email,
                     active |-> boxes[b].enabled, password |-> None]
  <2>1. boxes[b] \in BoxRow
    BY <1>1, <1>6, RowTypes, Zenon DEF BeginAdopt, Adoptable
  <2>2. /\ doc \in Document
        /\ doc.email = boxes[b].email /\ doc.active = boxes[b].enabled /\ doc.password = None
    BY <2>1, Zenon DEF BoxRow, Document
  <2>3. /\ Begin("adopt", u, doc, b)
        /\ Exists(b) /\ boxes[b].owner = None /\ users[u] = None /\ u \notin buried
    BY <1>6, Zenon DEF BeginAdopt, Adoptable
  <2> HIDE DEF doc
  <2>4. Checked("adopt", u, doc, b)
    BY <2>2, <2>3, Zenon DEF Checked
  <2>5. QED
    BY <2>2, <2>3, <2>4, BegunStep, Zenon
<1>7. QED
  BY <1>3, <1>4, <1>5, <1>6, Zenon

\* What goes on beside an open transaction leaves what it has read.
LEMMA TxKeeps ==
    ASSUME ServerType, TxInv, UNCHANGED <<tx, users, buried, members, boxes>>,
           pending' = pending \/ pending' = None,
           \A k \in Token : tokens[k] # None =>
               /\ tokens'[k] # None
               /\ tokens'[k].email = tokens[k].email /\ tokens'[k].box = tokens[k].box,
           \A s \in Subject : refs[s] # None => refs'[s] = refs[s],
           \A w \in Login : \/ logins'[w] = logins[w]
                            \/ logins'[w].state = "over"
                            \/ logins[w].state \notin {"live", "over"}
    PROVE  TxInv'
<1>1. SUFFICES ASSUME tx # None PROVE TxInv'
  BY Zenon DEF TxInv
<1>2. tx \in Transaction
  BY <1>1, Zenon DEF ServerType
<1>3. tx.live \subseteq Login /\ tx.refs \in [Subject -> Box \cup {None}]
  BY <1>2, Zenon DEF Transaction
<1>4. /\ At(tx.doc.email)' = At(tx.doc.email) /\ Owned(tx.user)' = Owned(tx.user)
      /\ (Exists(tx.claim)' <=> Exists(tx.claim))
  BY Zenon DEF At, Owned, Exists
<1>5. /\ tx'.op = "create" =>
            users'[tx'.user] = None /\ tx'.user \notin buried' /\ At(tx.doc.email)' = {}
      /\ tx'.op = "replace" =>
            /\ users'[tx'.user] # None
            /\ At(tx.doc.email)' \subseteq Owned(tx.user)'
            /\ tx'.doc.subject # users'[tx'.user].subject =>
                  \A s \in Subject : tx'.refs[s] \notin Owned(tx.user)'
  <2>1. tx' = tx /\ users' = users /\ buried' = buried
    BY Zenon
  <2>2. QED
    BY <1>1, <1>4, <2>1, Zenon DEF TxInv
<1>6. /\ tx'.op = "delete" =>
            /\ users'[tx'.user] # None /\ tx'.user \notin members'
            /\ tx'.doc.subject = users'[tx'.user].subject
            /\ tx'.doc.email = users'[tx'.user].email
            /\ ~tx'.doc.active /\ tx'.doc.password = None
      /\ tx'.op = "adopt" =>
            /\ tx'.claim \in Box /\ Exists(tx.claim)' /\ boxes'[tx'.claim].owner = None
            /\ users'[tx'.user] = None /\ tx'.user \notin buried'
            /\ tx'.doc.email = boxes'[tx'.claim].email
            /\ tx'.doc.active = boxes'[tx'.claim].enabled
            /\ tx'.doc.password = None
      /\ tx'.op # "adopt" => pending' = None
  BY <1>1, <1>4, Zenon DEF TxInv
<1>7. \A k \in Token : tx'.tokens[k] # None =>
         /\ tokens'[k] # None
         /\ tokens'[k].email = tx'.tokens[k].email /\ tokens'[k].box = tx'.tokens[k].box
  BY <1>1, Zenon DEF TxInv
<1>8. \A s \in Subject : tx'.refs[s] # None => refs'[s] = tx'.refs[s]
  BY <1>1, ZenonT(30) DEF TxInv
<1>9. ASSUME NEW w \in tx.live
      PROVE  /\ logins'[w].state \in {"live", "over"}
             /\ logins'[w].state = "live" => tx'.refs[logins'[w].subject] # None
  <2>1. /\ logins[w].state \in {"live", "over"}
        /\ logins[w].state = "live" => tx.refs[logins[w].subject] # None
    BY <1>1, Zenon DEF TxInv
  <2>2. QED
    BY <1>3, <2>1, Zenon
<1>10. QED
  BY <1>5, <1>6, <1>7, <1>8, <1>9, Zenon DEF TxInv

-----------------------------------------------------------------------------
(* The steps of a login *)

\* A login that is neither resolved nor live afterwards binds nothing.
LEMMA LoginStep ==
    ASSUME IdentityInv, NEW w \in Login, NEW row \in LoginRow,
           row.state \notin {"resolved", "live"},
           row.state = "over" \/ logins[w].state \notin {"live", "over"},
           logins' = [logins EXCEPT ![w] = row],
           UNCHANGED <<database, server, tx, crossed>>
    PROVE  IdentityInv'
<1>1. /\ TablesType /\ ServerType /\ OwnersInv /\ TxInv /\ BindingInv /\ SubjectInv
      /\ SessionInv /\ TokenInv /\ PassdbInv /\ MirrorInv
  BY Zenon DEF IdentityInv
<1>2. UNCHANGED <<users, buried, members, boxes, tokens, refs, pending, memory, passdb, shared,
                  request, tx, crossed>>
  BY Zenon DEF database, server
<1>3. /\ logins' \in [Login -> LoginRow]
      /\ \A v \in Login : logins'[v] = IF v = w THEN row ELSE logins[v]
  BY <1>1, Zenon DEF ServerType
<1>4. \A v \in Login : logins'[v].state \in {"resolved", "live"} => logins'[v] = logins[v]
  BY <1>3, Zenon
<1>5. TablesType' /\ ServerType'
  BY <1>1, <1>2, <1>3, Zenon DEF TablesType, ServerType
<1>6. /\ OwnersInv' /\ TokenInv' /\ PassdbInv' /\ MirrorInv'
  BY <1>1, <1>2, Frames, Zenon
<1>7. BindingInv'
  BY <1>1, <1>2, <1>4, Zenon DEF BindingInv, Exists
<1>8. SubjectInv'
  BY <1>1, <1>2, <1>4, Zenon DEF SubjectInv, SubjectOf
<1>9. SessionInv'
  BY <1>1, <1>2, <1>4, Zenon DEF SessionInv
<1>10. TxInv'
  <2>1. \A v \in Login : \/ logins'[v] = logins[v] \/ logins'[v].state = "over"
                         \/ logins[v].state \notin {"live", "over"}
    BY <1>3, Zenon
  <2>2. QED
    BY <1>1, <1>2, <2>1, TxKeeps, Zenon
<1>11. QED
  BY <1>5, <1>6, <1>7, <1>8, <1>9, <1>10, Zenon DEF IdentityInv

\* The steps of a login that write no session keep the invariant.
LEMMA SimpleLoginStep ==
    ASSUME IdentityInv, NEW w \in Login,
           StartLogin(w) \/ ConsumeAttempt(w) \/ LoginFails(w) \/ SessionExpires(w)
    PROVE  IdentityInv'
<1>1. /\ Over \in LoginRow /\ Over.state = "over"
      /\ Fresh("issued") \in LoginRow /\ Fresh("issued").state = "issued"
      /\ Fresh("consumed") \in LoginRow /\ Fresh("consumed").state = "consumed"
  BY Zenon DEF Over, Fresh, LoginRow
<1>2. PICK row \in LoginRow :
        /\ row.state \notin {"resolved", "live"}
        /\ row.state = "over" \/ logins[w].state \notin {"live", "over"}
        /\ logins' = [logins EXCEPT ![w] = row]
        /\ UNCHANGED <<database, server, tx, crossed>>
  BY <1>1, Zenon DEF StartLogin, ConsumeAttempt, LoginFails, SessionExpires, Step
<1>3. QED
  BY <1>2, LoginStep, Zenon

\* A login is bound to the one enabled mailbox of its subject.
LEMMA ResolveStep ==
    ASSUME IdentityInv, NEW w \in Login, NEW s \in Subject, NEW e \in Address,
           ResolveIdentity(w, s, e)
    PROVE  IdentityInv'
<1>1. /\ TablesType /\ ServerType /\ OwnersInv /\ TxInv /\ BindingInv /\ SubjectInv
      /\ SessionInv /\ TokenInv /\ PassdbInv /\ MirrorInv
  BY Zenon DEF IdentityInv
<1>2. PICK b \in Box :
        /\ Candidates(s) = {b}
        /\ logins' = [logins EXCEPT ![w] = [state |-> "resolved", subject |-> s, box |-> b]]
  BY Zenon DEF ResolveIdentity
<1>3. /\ logins[w].state = "consumed"
      /\ UNCHANGED <<users, buried, members, boxes, tokens, refs, pending, memory, passdb, shared,
                     request, tx, crossed>>
  BY Zenon DEF ResolveIdentity, database, server
<1> DEFINE row == [state |-> "resolved", subject |-> s, box |-> b]
<1>4. row \in LoginRow /\ row.state = "resolved" /\ row.subject = s /\ row.box = b
  BY Zenon DEF LoginRow
<1> HIDE DEF row
<1>5. /\ logins' \in [Login -> LoginRow]
      /\ \A v \in Login : logins'[v] = IF v = w THEN row ELSE logins[v]
  BY <1>1, <1>2, <1>4, Zenon DEF ServerType, row
<1>6. b \in Candidates(s)
  BY <1>2, Zenon
<1>7. /\ Exists(b) /\ boxes[b].enabled /\ boxes[b].owner # None /\ boxes[b].owner \in User
      /\ users[boxes[b].owner] # None /\ users[boxes[b].owner].subject = s
  <2>1. boxes[b] \in BoxRow
    BY <1>1, <1>6, RowTypes, Zenon DEF Candidates
  <2>2. QED
    BY <1>6, <2>1, Zenon DEF Candidates, BoxRow
<1>8. TablesType' /\ ServerType'
  BY <1>1, <1>3, <1>5, Zenon DEF TablesType, ServerType
<1>9. /\ OwnersInv' /\ TokenInv' /\ PassdbInv' /\ MirrorInv'
  BY <1>1, <1>3, Frames, Zenon
<1>10. BindingInv'
  BY <1>1, <1>3, <1>4, <1>5, <1>7, Zenon DEF BindingInv, Exists
<1>11. SubjectInv'
  BY <1>1, <1>3, <1>4, <1>5, <1>7, ZenonT(30) DEF SubjectInv, SubjectOf
<1>12. SessionInv'
  BY <1>1, <1>3, <1>4, <1>5, <1>7, Zenon DEF SessionInv
<1>13. TxInv'
  <2>1. \A v \in Login : \/ logins'[v] = logins[v] \/ logins'[v].state = "over"
                         \/ logins[v].state \notin {"live", "over"}
    BY <1>3, <1>5, Zenon
  <2>2. QED
    BY <1>1, <1>3, <2>1, TxKeeps, Zenon
<1>14. QED
  BY <1>8, <1>9, <1>10, <1>11, <1>12, <1>13, Zenon DEF IdentityInv

\* A session is admitted with the reference of its identity.
LEMMA SessionStep ==
    ASSUME IdentityInv, NEW w \in Login, PutIdentitySession(w)
    PROVE  IdentityInv'
<1>1. /\ TablesType /\ ServerType /\ OwnersInv /\ TxInv /\ BindingInv /\ SubjectInv
      /\ SessionInv /\ TokenInv /\ PassdbInv /\ MirrorInv
  BY Zenon DEF IdentityInv
<1>2. PICK s \in Subject, b \in Box : s = logins[w].subject /\ b = logins[w].box
  BY <1>1, Zenon DEF PutIdentitySession, BindingInv
<1>3. /\ logins[w].state = "resolved"
      /\ refs[s] = b \/ refs[s] = None
      /\ refs' = [refs EXCEPT ![s] = b]
      /\ logins' = [logins EXCEPT ![w] = [state |-> "live", subject |-> s, box |-> b]]
      /\ UNCHANGED <<users, buried, members, boxes, tokens, pending, memory, passdb, shared,
                     request, tx, crossed>>
  BY <1>2, Zenon DEF PutIdentitySession, server
<1> DEFINE row == [state |-> "live", subject |-> s, box |-> b]
<1>4. row \in LoginRow /\ row.state = "live" /\ row.subject = s /\ row.box = b
  BY Zenon DEF LoginRow
<1> HIDE DEF row
<1>5. /\ logins' \in [Login -> LoginRow]
      /\ \A v \in Login : logins'[v] = IF v = w THEN row ELSE logins[v]
  BY <1>1, <1>3, <1>4, Zenon DEF ServerType, row
<1>6. /\ refs' \in [Subject -> Box \cup {None}]
      /\ refs'[s] = b /\ \A r \in Subject : r # s => refs'[r] = refs[r]
      /\ \A r \in Subject : refs[r] # None => refs'[r] = refs[r]
  BY <1>1, <1>3, Zenon DEF TablesType
<1>7. Exists(b) /\ boxes[b].owner \in User
  BY <1>1, <1>2, <1>3, Zenon DEF BindingInv
<1>8. TablesType' /\ ServerType'
  BY <1>1, <1>3, <1>5, <1>6, Zenon DEF TablesType, ServerType
<1>9. /\ OwnersInv' /\ TokenInv' /\ PassdbInv' /\ MirrorInv'
  BY <1>1, <1>3, Frames, Zenon
<1>10. BindingInv'
  <2>1. \A r \in Subject : refs'[r] # None => Exists(refs'[r]) /\ boxes[refs'[r]].owner \in User
    BY <1>1, <1>6, <1>7, Zenon DEF BindingInv
  <2>2. \A v \in Login : logins'[v].state \in {"resolved", "live"} =>
          /\ logins'[v].subject \in Subject /\ logins'[v].box \in Box
          /\ Exists(logins'[v].box) /\ boxes[logins'[v].box].owner \in User
    BY <1>1, <1>4, <1>5, <1>7, Zenon DEF BindingInv
  <2>3. ASSUME NEW v \in Login, logins'[v].state = "live"
        PROVE  refs'[logins'[v].subject] = logins'[v].box
    <3>1. CASE v = w
      BY <1>4, <1>5, <1>6, <3>1, Zenon
    <3>2. CASE v # w
      <4>1. /\ logins'[v] = logins[v] /\ logins[v].subject \in Subject
            /\ refs[logins[v].subject] = logins[v].box /\ logins[v].box # None
        BY <1>1, <1>5, <2>3, <3>2, RowTypes, Zenon DEF BindingInv
      <4>2. QED
        BY <1>6, <4>1, Zenon
    <3>3. QED
      BY <3>1, <3>2, Zenon
  <2>4. QED
    BY <1>3, <2>1, <2>2, <2>3, Zenon DEF BindingInv, Exists
<1>11. SubjectInv'
  <2>1. SUFFICES ASSUME "subject" \notin crossed
                 PROVE  /\ \A r \in Subject : refs'[r] # None => SubjectOf(refs'[r], r)
                        /\ \A v \in Login : logins'[v].state = "resolved" =>
                              SubjectOf(logins'[v].box, logins'[v].subject)
    BY <1>3, Zenon DEF SubjectInv, SubjectOf
  <2>2. SubjectOf(b, s)
    BY <1>1, <1>2, <1>3, <2>1, Zenon DEF SubjectInv
  <2>3. QED
    BY <1>1, <1>4, <1>5, <1>6, <2>1, <2>2, Zenon DEF SubjectInv
<1>12. SessionInv'
  <2>1. "session" \notin crossed => boxes[b].enabled
    BY <1>1, <1>2, <1>3, Zenon DEF SessionInv
  <2>2. QED
    BY <1>1, <1>3, <1>4, <1>5, <2>1, Zenon DEF SessionInv
<1>13. TxInv'
  <2>1. \A v \in Login : \/ logins'[v] = logins[v] \/ logins'[v].state = "over"
                         \/ logins[v].state \notin {"live", "over"}
    BY <1>3, <1>5, Zenon
  <2>2. QED
    BY <1>1, <1>3, <1>6, <2>1, TxKeeps, Zenon
<1>14. QED
  BY <1>8, <1>9, <1>10, <1>11, <1>12, <1>13, Zenon DEF IdentityInv

-----------------------------------------------------------------------------
(* The steps of the server *)

\* An app-password request that begins or fails keeps the invariant.
LEMMA RequestStep ==
    ASSUME IdentityInv, (\E w \in Login : Authenticate(w)) \/ RequestFails
    PROVE  IdentityInv'
<1>1. /\ TablesType /\ ServerType /\ OwnersInv /\ TxInv /\ BindingInv /\ SubjectInv
      /\ SessionInv /\ TokenInv /\ PassdbInv /\ MirrorInv
  BY Zenon DEF IdentityInv
<1>2. UNCHANGED <<users, buried, members, boxes, tokens, refs, pending, memory, passdb, shared,
                  logins, tx, crossed>>
  BY Zenon DEF Authenticate, RequestFails, database
<1>3. /\ request' \in Session \cup {None}
      /\ request' # None => Exists(request'.box) /\ boxes[request'.box].email = request'.email
  <2>1. ASSUME NEW w \in Login, Authenticate(w)
       PROVE  /\ request' \in Session \cup {None}
              /\ request' # None => Exists(request'.box) /\ boxes[request'.box].email = request'.email
    <3>1. PICK b \in Box : b = refs[logins[w].subject] /\ Exists(b)
      <4>1. logins[w].state = "live"
        BY <2>1, Zenon DEF Authenticate, BoundSession
      <4>2. QED
        BY <1>1, <4>1, Zenon DEF BindingInv
    <3>2. request' = [box |-> b, email |-> boxes[b].email]
      BY <2>1, <3>1, Zenon DEF Authenticate
    <3>3. boxes[b].email \in Address
      BY <1>1, <3>1, RowTypes, Zenon DEF BoxRow
    <3>4. QED
      BY <3>1, <3>2, <3>3, Zenon DEF Session
  <2>2. CASE RequestFails
    BY <2>2, Zenon DEF RequestFails
  <2>3. QED
    BY <2>1, <2>2, Zenon
<1>4. TablesType' /\ ServerType'
  BY <1>1, <1>2, <1>3, Zenon DEF TablesType, ServerType
<1>5. /\ OwnersInv' /\ TxInv' /\ BindingInv' /\ SubjectInv' /\ SessionInv' /\ PassdbInv'
      /\ MirrorInv'
  BY <1>1, <1>2, Frames, Zenon
<1>6. TokenInv'
  BY <1>1, <1>2, <1>3, Zenon DEF TokenInv, Issued, Exists
<1>7. QED
  BY <1>4, <1>5, <1>6, Zenon DEF IdentityInv

\* Group changes and abandoned transactions keep the invariant.
LEMMA GroupStep ==
    ASSUME IdentityInv, Abort \/ \E ms \in SUBSET User : PutGroup(ms)
    PROVE  IdentityInv'
<1>1. /\ TablesType /\ ServerType /\ OwnersInv /\ TxInv /\ BindingInv /\ SubjectInv
      /\ SessionInv /\ TokenInv /\ PassdbInv /\ MirrorInv
  BY Zenon DEF IdentityInv
<1>2. /\ UNCHANGED <<users, buried, boxes, tokens, refs, pending, memory, passdb, shared,
                     request, logins, crossed>>
      /\ tx' = None
  BY Zenon DEF Abort, PutGroup, database, server
<1>3. members' \subseteq User /\ \A u \in members' : users[u] # None
  BY <1>1, Zenon DEF Abort, PutGroup, database, OwnersInv, TablesType
<1>4. TablesType' /\ ServerType'
  BY <1>1, <1>2, <1>3, Zenon DEF TablesType, ServerType
<1>5. TxInv'
  BY <1>2, Zenon DEF TxInv
<1>6. OwnersInv'
  BY <1>1, <1>2, <1>3, ZenonT(30) DEF OwnersInv, Owned, Exists
<1>7. /\ BindingInv' /\ SubjectInv' /\ SessionInv' /\ TokenInv' /\ PassdbInv' /\ MirrorInv'
  BY <1>1, <1>2, Frames, Zenon
<1>8. QED
  BY <1>4, <1>5, <1>6, <1>7, Zenon DEF IdentityInv

\* The memory with a change projected.
LEMMA ProjectFacts ==
    ASSUME ServerType, PassdbInv, NEW p \in Projection
    PROVE  /\ Projected(memory.boxes, p) \in [Address -> Entry \cup {None}]
           /\ ProjectedTokens(p) \in [Token -> Held \cup {None}]
           /\ \A k \in Token : ProjectedTokens(p)[k] # None => memory.tokens[k] # None
           /\ \A e \in Address : e # p.row.email /\ ~(Moved(p) /\ e = p.previous) =>
                 Active(ProjectedTokens(p), e) = Active(memory.tokens, e)
<1>1. /\ p.row \in BoxRow /\ p.previous \in Address \cup {None}
      /\ p.row.email \in Address /\ p.row.enabled \in BOOLEAN
      /\ p.row.verifier \in Password \cup {None}
  BY Zenon DEF Projection, BoxRow
<1>2. /\ memory.boxes \in [Address -> Entry \cup {None}]
      /\ memory.tokens \in [Token -> Held \cup {None}]
  BY Zenon DEF ServerType
<1>3. EntryOf(p) \in Entry
  <2> DEFINE known == IF p.previous = None THEN None ELSE memory.boxes[p.previous]
  <2>1. known \in Entry \cup {None}
    BY <1>1, <1>2, Zenon
  <2>2. known # None => known.verifier \in Password \cup {None}
    BY <2>1, Zenon DEF Entry
  <2> DEFINE v == IF p.row.verifier = None /\ known # None THEN known.verifier
                  ELSE p.row.verifier
  <2>3. EntryOf(p) = [enabled |-> p.row.enabled, verifier |-> v]
    BY Zenon DEF EntryOf
  <2>4. v \in Password \cup {None}
    BY <1>1, <2>2, Zenon
  <2> HIDE DEF v
  <2>5. QED
    BY <1>1, <2>3, <2>4 DEF Entry
<1>4. Projected(memory.boxes, p) \in [Address -> Entry \cup {None}]
  BY <1>2, <1>3, Zenon DEF Projected
<1>5. ASSUME NEW k \in Token, Moved(p), memory.tokens[k] # None,
             memory.tokens[k].email = p.previous
      PROVE  /\ ProjectedTokens(p)[k] \in Held /\ ProjectedTokens(p)[k].email = p.row.email
  <2>1. ProjectedTokens(p)[k] = [email |-> p.row.email, revoked |-> memory.tokens[k].revoked]
    BY <1>5, Zenon DEF ProjectedTokens
  <2>2. memory.tokens[k].revoked \in BOOLEAN
    BY <1>2, <1>5, Zenon DEF Held
  <2>3. QED
    BY <1>1, <2>1, <2>2 DEF Held
<1>6. \A k \in Token : ~(Moved(p) /\ memory.tokens[k] # None /\ memory.tokens[k].email = p.previous)
         => ProjectedTokens(p)[k] = memory.tokens[k]
  BY Zenon DEF ProjectedTokens
<1>7. ProjectedTokens(p) \in [Token -> Held \cup {None}]
  <2>1. ProjectedTokens(p) = [k \in Token |-> ProjectedTokens(p)[k]]
    BY Zenon DEF ProjectedTokens
  <2>2. \A k \in Token : ProjectedTokens(p)[k] \in Held \cup {None}
    BY <1>2, <1>5, <1>6, Zenon
  <2>3. QED
    BY <2>1, <2>2, Zenon
<1>8. \A k \in Token : ProjectedTokens(p)[k] # None => memory.tokens[k] # None
  BY <1>5, <1>6, Zenon
<1>9. ASSUME NEW e \in Address, e # p.row.email, ~(Moved(p) /\ e = p.previous)
      PROVE  Active(ProjectedTokens(p), e) = Active(memory.tokens, e)
  BY <1>5, <1>6, <1>9, RowAssumption, Zenon DEF Active
<1>10. QED
  BY <1>4, <1>7, <1>8, <1>9, Zenon

\* The projection after a commit brings the server up to the tables.
LEMMA ProjectStep ==
    ASSUME IdentityInv, Project
    PROVE  IdentityInv'
<1>1. /\ TablesType /\ ServerType /\ OwnersInv /\ TxInv /\ BindingInv /\ SubjectInv
      /\ SessionInv /\ TokenInv /\ PassdbInv /\ MirrorInv
  BY Zenon DEF IdentityInv
<1>2. UNCHANGED <<users, buried, members, boxes, tokens, refs, shared, request, logins, tx, crossed>>
      /\ pending' = None /\ pending # None
  BY Zenon DEF Project, database
<1>3. PICK p \in Projection : p = pending
  BY <1>1, <1>2, Zenon DEF ServerType
<1>4. /\ Projected(memory.boxes, p) \in [Address -> Entry \cup {None}]
      /\ ProjectedTokens(p) \in [Token -> Held \cup {None}]
      /\ \A k \in Token : ProjectedTokens(p)[k] # None => memory.tokens[k] # None
      /\ \A e \in Address : e # p.row.email /\ ~(Moved(p) /\ e = p.previous) =>
            Active(ProjectedTokens(p), e) = Active(memory.tokens, e)
  BY <1>1, ProjectFacts, Zenon
<1> DEFINE entries == Projected(memory.boxes, p)
           held == ProjectedTokens(p)
           seen == [e \in Address |->
                      IF e = p.row.email THEN Active(held, e)
                      ELSE IF Moved(p) /\ e = p.previous THEN {}
                      ELSE passdb.verifiers[e]]
<1>5. /\ memory' = [boxes |-> entries, tokens |-> held]
      /\ passdb' = [hosted |-> TRUE, boxes |-> entries, verifiers |-> seen]
  BY <1>1, <1>3, Zenon DEF Project, PassdbInv
<1>6. \A e \in Address : Moved(p) /\ e = p.previous => e # p.row.email /\ entries[e] = None
  BY Zenon DEF Projected, Moved
<1>7. \A e \in Address : entries[e] # None /\ e # p.row.email =>
         ~(Moved(p) /\ e = p.previous) /\ entries[e] = memory.boxes[e]
  BY Zenon DEF Projected
<1>8. seen \in [Address -> SUBSET Token]
  <2>1. passdb.verifiers \in [Address -> SUBSET Token]
    BY <1>1, Zenon DEF ServerType
  <2>2. \A e \in Address : Active(held, e) \subseteq Token
    BY Zenon DEF Active
  <2> HIDE DEF held
  <2>3. QED
    BY <2>1, <2>2, Zenon
<1>9. ASSUME NEW e \in Address, entries[e] # None PROVE seen[e] = Active(held, e)
  <2>1. CASE e = p.row.email
    BY <2>1, Zenon
  <2>2. CASE e # p.row.email
    <3>1. ~(Moved(p) /\ e = p.previous) /\ memory.boxes[e] # None
      BY <1>7, <1>9, <2>2, Zenon
    <3>2. seen[e] = passdb.verifiers[e] /\ passdb.verifiers[e] = Active(memory.tokens, e)
      BY <1>1, <2>2, <3>1, Zenon DEF PassdbInv
    <3>3. QED
      BY <1>4, <2>2, <3>1, <3>2, Zenon
  <2>3. QED
    BY <2>1, <2>2, Zenon
<1>10. AfterBoxes = entries /\ AfterTokens = held
  BY <1>2, <1>3, Zenon DEF AfterBoxes, AfterTokens
<1> HIDE DEF entries, held, seen
<1>11. /\ memory'.boxes = entries /\ memory'.tokens = held
       /\ passdb'.boxes = entries /\ passdb'.hosted = TRUE /\ passdb'.verifiers = seen
  BY <1>5, Zenon
<1>12. TablesType' /\ ServerType'
  <2>1. TablesType'
    BY <1>1, <1>2, Zenon DEF TablesType
  <2>2. entries \in [Address -> Entry \cup {None}] /\ held \in [Token -> Held \cup {None}]
    BY <1>4, Zenon DEF entries, held
  <2>3. QED
    BY <1>1, <1>2, <1>5, <1>8, <2>1, <2>2, Zenon DEF ServerType
<1>13. PassdbInv'
  <2>1. \A k \in Token : held[k] # None => tokens[k] # None
    BY <1>1, <1>4, Zenon DEF held, PassdbInv
  <2>2. QED
    BY <1>2, <1>9, <1>11, <2>1, Zenon DEF PassdbInv, Active
<1>14. MirrorInv'
  <2>1. AfterBoxes' = entries /\ AfterTokens' = held
    BY <1>2, <1>11, Zenon DEF AfterBoxes, AfterTokens
  <2>2. Loaded' = Loaded
    BY <1>2, Zenon DEF Loaded, At, Exists
  <2>3. QED
    BY <1>1, <1>2, <1>10, <2>1, <2>2, Zenon DEF MirrorInv
<1>15. TxInv'
  BY <1>1, <1>2, TxKeeps, Zenon
<1>16. /\ OwnersInv' /\ BindingInv' /\ SubjectInv' /\ SessionInv' /\ TokenInv'
  BY <1>1, <1>2, Frames, Zenon
<1>17. QED
  BY <1>12, <1>13, <1>14, <1>15, <1>16, Zenon DEF IdentityInv

\* What a server that starts has in its memory.
StartInv ==
    /\ Loaded \in [boxes : [Address -> Entry \cup {None}], tokens : [Token -> Held \cup {None}]]
    /\ Bound(Loaded) \in [hosted : BOOLEAN, boxes : [Address -> Entry \cup {None}],
                          verifiers : [Address -> SUBSET Token]]
    /\ Bound(Loaded).boxes = Loaded.boxes
    /\ (\E b \in Box : Exists(b)) => Bound(Loaded).hosted
    /\ \A e \in Address :
          Loaded.boxes[e] # None => Bound(Loaded).verifiers[e] = Active(Loaded.tokens, e)
    /\ \A k \in Token : Loaded.tokens[k] # None => tokens[k] # None

\* A server that starts agrees with the tables.
LEMMA StartFacts == TablesType /\ OwnersInv => StartInv
<1> SUFFICES ASSUME TablesType, OwnersInv PROVE StartInv
  OBVIOUS
<1>1. LoadedInv
  BY LoadedFacts, Zenon
<1>2. /\ Loaded.boxes \in [Address -> Entry \cup {None}]
      /\ Loaded.tokens \in [Token -> Held \cup {None}]
      /\ Loaded = [boxes |-> Loaded.boxes, tokens |-> Loaded.tokens]
  BY <1>1, Zenon DEF LoadedInv, Loaded
<1> DEFINE entries == Loaded.boxes
           held == Loaded.tokens
           seen == [e \in Address |-> IF entries[e] = None THEN {} ELSE Active(held, e)]
<1>3. Bound(Loaded) = [hosted |-> \E e \in Address : entries[e] # None,
                       boxes |-> entries, verifiers |-> seen]
  BY Zenon DEF Bound
<1>4. seen \in [Address -> SUBSET Token] /\ \A e \in Address : entries[e] # None => seen[e] = Active(held, e)
  BY Zenon DEF Active
<1>5. ASSUME NEW b \in Box, Exists(b) PROVE \E e \in Address : entries[e] # None
  <2>1. boxes[b].email \in Address /\ b \in At(boxes[b].email) /\ EntryIn(b) \in Entry
    BY <1>1, <1>5, RowTypes, Zenon DEF At, BoxRow, LoadedInv
  <2>2. entries[boxes[b].email] = EntryIn(b)
    BY <1>1, <2>1, Zenon DEF LoadedInv
  <2>3. QED
    BY <2>1, <2>2, RowAssumption, Zenon
<1>6. \A k \in Token : held[k] # None => tokens[k] # None
  BY <1>1, Zenon DEF LoadedInv
<1>7. /\ entries \in [Address -> Entry \cup {None}] /\ held \in [Token -> Held \cup {None}]
      /\ Loaded = [boxes |-> entries, tokens |-> held]
  BY <1>2, Zenon
<1>8. Loaded \in [boxes : [Address -> Entry \cup {None}], tokens : [Token -> Held \cup {None}]]
  BY <1>2, Zenon
<1> HIDE DEF seen
<1>9. /\ Bound(Loaded) \in [hosted : BOOLEAN, boxes : [Address -> Entry \cup {None}],
                            verifiers : [Address -> SUBSET Token]]
      /\ Bound(Loaded).boxes = entries /\ Bound(Loaded).verifiers = seen
      /\ Bound(Loaded).hosted <=> \E e \in Address : entries[e] # None
  <2> HIDE DEF entries
  <2>1. QED
    BY <1>3, <1>4, <1>7
<1>10. QED
  BY <1>4, <1>5, <1>6, <1>8, <1>9, Zenon DEF StartInv

\* The server starts again from the tables.
LEMMA RestartStep ==
    ASSUME IdentityInv, Restart
    PROVE  IdentityInv'
<1>1. /\ TablesType /\ ServerType /\ OwnersInv /\ TxInv /\ BindingInv /\ SubjectInv
      /\ SessionInv /\ TokenInv /\ StartInv
  BY StartFacts, Zenon DEF IdentityInv
<1>2. /\ UNCHANGED <<users, buried, members, boxes, tokens, refs, crossed>>
      /\ memory' = Loaded /\ passdb' = Bound(Loaded)
      /\ shared' = (\E b \in Box : Exists(b))
      /\ pending' = None /\ request' = None
      /\ tx' = None \/ tx' = tx
  BY Zenon DEF Restart, database
<1>3. /\ logins' \in [Login -> LoginRow]
      /\ \A w \in Login : logins'[w].state \in {"resolved", "live"} =>
            logins'[w] = logins[w] /\ logins[w].state = "live"
      /\ \A w \in Login : logins'[w] = logins[w] \/ logins'[w].state = "over"
  <2>1. Over \in LoginRow /\ Over.state = "over"
    BY Zenon DEF Over, Fresh, LoginRow
  <2>2. logins' = [w \in Login |-> IF logins[w].state \in {"consumed", "resolved"}
                                   THEN Over ELSE logins[w]]
    BY Zenon DEF Restart
  <2>3. QED
    BY <1>1, <2>1, <2>2, Zenon DEF ServerType
<1>4. Loaded' = Loaded
  BY <1>2, Zenon DEF Loaded, At, Exists
<1>5. TablesType'
  BY <1>1, <1>2, Zenon DEF TablesType
<1>6. ServerType'
  <2>1. tx' \in Transaction \cup {None} /\ shared' \in BOOLEAN
    BY <1>1, <1>2, Zenon DEF ServerType
  <2>2. QED
    BY <1>1, <1>2, <1>3, <2>1, Zenon DEF ServerType, StartInv
<1>7. PassdbInv'
  BY <1>1, <1>2, Zenon DEF PassdbInv, StartInv
<1>8. MirrorInv'
  BY <1>2, <1>4, Zenon DEF MirrorInv, AfterBoxes, AfterTokens
<1>9. BindingInv'
  BY <1>1, <1>2, <1>3, Zenon DEF BindingInv, Exists
<1>10. SubjectInv'
  BY <1>1, <1>2, <1>3, Zenon DEF SubjectInv, SubjectOf
<1>11. SessionInv'
  BY <1>1, <1>2, <1>3, Zenon DEF SessionInv
<1>12. TokenInv'
  BY <1>1, <1>2, Zenon DEF TokenInv, Issued, Exists
<1>13. OwnersInv'
  BY <1>1, <1>2, Frames, Zenon
<1>14. TxInv'
  <2>1. CASE tx' = None
    BY <2>1, Zenon DEF TxInv
  <2>2. CASE tx' = tx
    BY <1>1, <1>2, <1>3, <2>2, TxKeeps, Zenon
  <2>3. QED
    BY <1>2, <2>1, <2>2, Zenon
<1>15. QED
  BY <1>5, <1>6, <1>7, <1>8, <1>9, <1>10, <1>11, <1>12, <1>13, <1>14, Zenon DEF IdentityInv

-----------------------------------------------------------------------------
(* The steps of an app password *)

\* The row of an app password is written, and the memory follows or the
\* answer is lost.
LEMMA TokenMirror ==
    ASSUME TablesType, ServerType, OwnersInv, PassdbInv, MirrorInv, TablesType', OwnersInv',
           NEW k \in Token, NEW e \in Address, NEW r \in BOOLEAN, NEW c \in Box,
           request.email = e,
           tokens' = [tokens EXCEPT ![k] = [email |-> e, revoked |-> r, box |-> c]],
           memory.tokens[k] # None => memory.tokens[k].email = e,
           "token" \notin crossed /\ pending # None /\ Moved(pending) => e # pending.previous,
           UNCHANGED <<boxes, pending, shared>>,
           Hold(k, [email |-> e, revoked |-> r]) \/ Lose
    PROVE  /\ memory' \in [boxes : [Address -> Entry \cup {None}], tokens : [Token -> Held \cup {None}]]
           /\ passdb' \in [hosted : BOOLEAN, boxes : [Address -> Entry \cup {None}],
                           verifiers : [Address -> SUBSET Token]]
           /\ PassdbInv' /\ MirrorInv'
<1> DEFINE entry == [email |-> e, revoked |-> r]
           row == [email |-> e, revoked |-> r, box |-> c]
           held == [memory.tokens EXCEPT ![k] = entry]
           seen == [passdb.verifiers EXCEPT ![e] = Active(held, e)]
<1>1. /\ entry \in Held /\ entry.email = e
      /\ row \in TokenRow /\ row.email = e /\ row.revoked = r
  BY Zenon DEF Held, TokenRow
<1>2. /\ memory.boxes \in [Address -> Entry \cup {None}]
      /\ memory.tokens \in [Token -> Held \cup {None}]
      /\ passdb.hosted \in BOOLEAN /\ passdb.verifiers \in [Address -> SUBSET Token]
      /\ passdb.boxes = memory.boxes
      /\ memory = [boxes |-> memory.boxes, tokens |-> memory.tokens]
      /\ passdb = [hosted |-> passdb.hosted, boxes |-> memory.boxes, verifiers |-> passdb.verifiers]
  BY Zenon DEF ServerType, PassdbInv
<1> HIDE DEF entry, row
<1>3. /\ held \in [Token -> Held \cup {None}]
      /\ held[k] = entry /\ \A j \in Token : j # k => held[j] = memory.tokens[j]
  BY <1>1, <1>2, Zenon
<1>4. /\ tokens'[k] = row /\ \A j \in Token : j # k => tokens'[j] = tokens[j]
  BY Zenon DEF TablesType, row
<1> HIDE DEF held
<1>5. /\ seen \in [Address -> SUBSET Token]
      /\ seen[e] = Active(held, e) /\ \A f \in Address : f # e => seen[f] = passdb.verifiers[f]
  <2>1. Active(held, e) \subseteq Token
    BY Zenon DEF Active
  <2>2. QED
    BY <1>2, <2>1, Zenon
<1>6. \A f \in Address : f # e => Active(held, f) = Active(memory.tokens, f)
  BY <1>1, <1>3, Zenon DEF Active
<1> HIDE DEF seen
<1>7. CASE Lose
  <2>1. UNCHANGED <<memory, passdb>> /\ "answer" \in crossed'
    BY <1>7, Zenon DEF Lose
  <2>2. \A j \in Token : tokens[j] # None => tokens'[j] # None
    BY <1>1, <1>4, RowAssumption, Zenon
  <2>3. PassdbInv'
    BY <2>1, <2>2, Zenon DEF PassdbInv, Active
  <2>4. MirrorInv'
    <3>1. pending' # None /\ Moved(pending)' => At(pending.previous)' = {}
      BY Zenon DEF MirrorInv, Moved, At, Exists
    <3>2. QED
      BY <2>1, <3>1, Zenon DEF MirrorInv
  <2>5. QED
    BY <2>1, <2>3, <2>4, Zenon DEF ServerType
<1>8. CASE Hold(k, [email |-> e, revoked |-> r])
  <2>1. /\ memory' = [boxes |-> memory.boxes, tokens |-> held]
        /\ passdb' = [hosted |-> passdb.hosted, boxes |-> memory.boxes, verifiers |-> seen]
        /\ crossed' = crossed
    <3>1. /\ memory' = [memory EXCEPT !.tokens = held]
          /\ passdb' = [passdb EXCEPT !.verifiers = seen]
          /\ crossed' = crossed
      BY <1>8, Zenon DEF Hold, Verifiers, held, seen, entry
    <3>2. QED
      BY <1>2, <3>1, Zenon
  <2>2. /\ memory'.boxes = memory.boxes /\ memory'.tokens = held
        /\ passdb'.boxes = memory.boxes /\ passdb'.hosted = passdb.hosted
        /\ passdb'.verifiers = seen
    BY <2>1, Zenon
  <2>3. PassdbInv'
    <3>1. \A f \in Address : memory.boxes[f] # None => seen[f] = Active(held, f)
      BY <1>5, <1>6, Zenon DEF PassdbInv
    <3>2. \A j \in Token : held[j] # None => tokens'[j] # None
      BY <1>1, <1>3, <1>4, RowAssumption, Zenon DEF PassdbInv
    <3>3. shared => passdb.hosted
      BY Zenon DEF PassdbInv
    <3>4. \A f \in Address : Active(memory.tokens, f)' = Active(held, f)
      BY <2>2, Zenon DEF Active
    <3>5. \A f \in Address :
             memory'.boxes[f] # None => passdb'.verifiers[f] = Active(memory.tokens, f)'
      BY <2>2, <3>1, <3>4, Zenon
    <3>6. /\ passdb'.boxes = memory'.boxes /\ (shared' => passdb'.hosted)
          /\ \A j \in Token : memory'.tokens[j] # None => tokens'[j] # None
      BY <2>2, <3>2, <3>3, Zenon
    <3>7. QED
      BY <3>5, <3>6, Zenon DEF PassdbInv
  <2>4. MirrorInv'
    <3>1. LoadedInv /\ LoadedInv'
      BY LoadedFacts, LoadedFactsNext, Zenon
    <3>2. (Moved(pending)' <=> Moved(pending)) /\ At(pending.previous)' = At(pending.previous)
          /\ Loaded.boxes' = Loaded.boxes
      BY Zenon DEF Moved, At, Exists, Loaded
    <3>3. AfterBoxes' = AfterBoxes
      BY <2>2, <3>2, Zenon DEF AfterBoxes, Projected, EntryOf
    <3>4. ASSUME crossed \cap {"token", "answer"} = {} PROVE AfterTokens' = Loaded.tokens'
      <4>1. AfterTokens = Loaded.tokens
        BY <3>4, Zenon DEF MirrorInv
      <4>2. \A j \in Token : j # k => AfterTokens'[j] = AfterTokens[j]
        BY <1>3, <2>2, <3>2, Zenon DEF AfterTokens, ProjectedTokens
      <4>3. ASSUME NEW j \in Token, j # k PROVE Loaded.tokens'[j] = Loaded.tokens[j]
        <5>1. tokens'[j] = tokens[j]
          BY <1>4, <4>3, Zenon
        <5>2. CASE tokens[j] = None
          <6>1. Loaded.tokens'[j] = None /\ Loaded.tokens[j] = None
            BY <3>1, <5>1, <5>2, Zenon DEF LoadedInv
          <6>2. QED
            BY <6>1, Zenon
        <5>3. CASE tokens[j] # None
          <6>1. /\ Loaded.tokens'[j] = [email |-> tokens'[j].email, revoked |-> tokens'[j].revoked]
                /\ Loaded.tokens[j] = [email |-> tokens[j].email, revoked |-> tokens[j].revoked]
            BY <3>1, <5>1, <5>3, Zenon DEF LoadedInv
          <6>2. QED
            BY <5>1, <6>1, Zenon
        <5>4. QED
          BY <5>2, <5>3, Zenon
      <4>4. AfterTokens'[k] = entry
        BY <1>1, <1>3, <2>2, <3>2, <3>4, Zenon DEF AfterTokens, ProjectedTokens
      <4>5. Loaded.tokens'[k] = entry
        <5>1. tokens'[k] # None /\ tokens'[k].email = e /\ tokens'[k].revoked = r
          BY <1>1, <1>4, RowAssumption, Zenon
        <5>2. Loaded.tokens'[k] = [email |-> tokens'[k].email, revoked |-> tokens'[k].revoked]
          BY <3>1, <5>1, Zenon DEF LoadedInv
        <5>3. QED
          BY <5>1, <5>2, Zenon DEF entry
      <4>6. AfterTokens' = [j \in Token |-> AfterTokens'[j]]
        BY <1>3, <2>2, Zenon DEF AfterTokens, ProjectedTokens
      <4>7. Loaded.tokens' = [j \in Token |-> Loaded.tokens'[j]]
        BY <3>1, Zenon DEF LoadedInv
      <4>8. QED
        BY <4>1, <4>2, <4>3, <4>4, <4>5, <4>6, <4>7
    <3>5. QED
      BY <2>1, <3>2, <3>3, <3>4, Zenon DEF MirrorInv
  <2>5. QED
    BY <1>2, <1>3, <1>5, <2>1, <2>3, <2>4, Zenon
<1>9. QED
  BY <1>7, <1>8, Zenon

\* One written app password keeps the invariant.
LEMMA TokenStep ==
    ASSUME IdentityInv, NEW k \in Token, NEW e \in Address, NEW r \in BOOLEAN, NEW c \in Box,
           request.email = e,
           tokens' = [tokens EXCEPT ![k] = [email |-> e, revoked |-> r, box |-> c]],
           tokens[k] # None => tokens[k].email = e /\ tokens[k].box = c,
           memory.tokens[k] # None => memory.tokens[k].email = e,
           "token" \notin crossed => Exists(c) /\ boxes[c].email = e,
           "token" \notin crossed => Cardinality(Active(tokens', e)) <= MaxVerifiers,
           Hold(k, [email |-> e, revoked |-> r]) \/ Lose,
           Answered
    PROVE  IdentityInv'
<1>1. /\ TablesType /\ ServerType /\ OwnersInv /\ TxInv /\ BindingInv /\ SubjectInv
      /\ SessionInv /\ TokenInv /\ PassdbInv /\ MirrorInv
  BY Zenon DEF IdentityInv
<1>2. /\ UNCHANGED <<users, buried, members, boxes, refs, pending, shared, logins, tx>>
      /\ request' = None
  BY Zenon DEF Answered
<1> DEFINE row == [email |-> e, revoked |-> r, box |-> c]
<1>3. row \in TokenRow /\ row.email = e /\ row.box = c /\ row # None
  <2>1. row \in TokenRow /\ row.email = e /\ row.box = c
    BY Zenon DEF TokenRow
  <2> HIDE DEF row
  <2>2. QED
    BY <2>1, RowAssumption, Zenon
<1> HIDE DEF row
<1>4. /\ tokens' \in [Token -> TokenRow \cup {None}]
      /\ tokens'[k] = row /\ \A j \in Token : j # k => tokens'[j] = tokens[j]
  BY <1>1, <1>3, Zenon DEF TablesType, row
<1>5. TablesType'
  BY <1>1, <1>2, <1>4, Zenon DEF TablesType
<1>6. OwnersInv' /\ BindingInv'
  BY <1>1, <1>2, Frames, Zenon
<1>7. crossed \subseteq crossed' /\ \A x \in {"token", "session", "subject"} : x \in crossed' => x \in crossed
  BY Zenon DEF Hold, Lose
<1>8. SubjectInv' /\ SessionInv'
  <2>1. SubjectInv'
    BY <1>1, <1>2, <1>7, Zenon DEF SubjectInv, SubjectOf
  <2>2. SessionInv'
    BY <1>1, <1>2, <1>7, Zenon DEF SessionInv
  <2>3. QED
    BY <2>1, <2>2, Zenon
<1>9. "token" \notin crossed /\ pending # None /\ Moved(pending) => e # pending.previous
  BY <1>1, Zenon DEF MirrorInv, At
<1>10. /\ memory' \in [boxes : [Address -> Entry \cup {None}], tokens : [Token -> Held \cup {None}]]
       /\ passdb' \in [hosted : BOOLEAN, boxes : [Address -> Entry \cup {None}],
                       verifiers : [Address -> SUBSET Token]]
       /\ PassdbInv' /\ MirrorInv'
  <2>1. UNCHANGED <<boxes, pending, shared>>
    BY <1>2, Zenon
  <2>2. QED
    BY <1>1, <1>5, <1>6, <1>9, <2>1, TokenMirror, Zenon
<1>11. ServerType'
  BY <1>1, <1>2, <1>10, Zenon DEF ServerType
<1>12. TxInv'
  <2>1. \A j \in Token : tokens[j] # None =>
           /\ tokens'[j] # None
           /\ tokens'[j].email = tokens[j].email /\ tokens'[j].box = tokens[j].box
    BY <1>3, <1>4, Zenon
  <2>2. QED
    BY <1>1, <1>2, <2>1, TxKeeps, Zenon
<1>13. TokenInv'
  <2>1. IsFiniteSet(Issued')
    <3>1. Issued' = Issued \cup {k}
      BY <1>3, <1>4, Zenon DEF Issued
    <3>2. QED
      BY <1>1, <3>1, FS_AddElement, Zenon DEF TokenInv
  <2>2. SUFFICES ASSUME "token" \notin crossed
                 PROVE  /\ \A j \in Token : tokens'[j] # None =>
                              Exists(tokens'[j].box) /\ boxes[tokens'[j].box].email = tokens'[j].email
                        /\ \A f \in Address : Cardinality(Active(tokens', f)) <= MaxVerifiers
    BY <1>2, <1>7, <2>1, Zenon DEF TokenInv, Exists, Issued, Active
  <2>3. ASSUME NEW j \in Token, tokens'[j] # None
        PROVE  Exists(tokens'[j].box) /\ boxes[tokens'[j].box].email = tokens'[j].email
    BY <1>1, <1>3, <1>4, <2>2, <2>3, Zenon DEF TokenInv
  <2>4. ASSUME NEW f \in Address PROVE Cardinality(Active(tokens', f)) <= MaxVerifiers
    <3>1. CASE f = e
      BY <2>2, <3>1, Zenon
    <3>2. CASE f # e
      <4>1. Active(tokens', f) = Active(tokens, f)
        BY <1>3, <1>4, <3>2, Zenon DEF Active
      <4>2. QED
        BY <1>1, <2>2, <4>1, Zenon DEF TokenInv
    <3>3. QED
      BY <3>1, <3>2, Zenon
  <2>5. QED
    BY <2>3, <2>4, Zenon
<1>14. QED
  BY <1>5, <1>6, <1>8, <1>10, <1>11, <1>12, <1>13, Zenon DEF IdentityInv

\* Creating an app password keeps the invariant.
LEMMA CreateStep ==
    ASSUME IdentityInv, NEW k \in Token, CreateAppPassword(k)
    PROVE  IdentityInv'
<1>1. TablesType /\ ServerType /\ TokenInv /\ PassdbInv
  BY Zenon DEF IdentityInv
<1>2. PICK q \in Session : request = q
  BY <1>1, Zenon DEF CreateAppPassword, MayManage, ServerType
<1> DEFINE e == q.email
           c == q.box
<1>3. e \in Address /\ c \in Box /\ q # None
  BY RowAssumption, Zenon DEF Session
<1>4. /\ tokens' = [tokens EXCEPT ![k] = [email |-> e, revoked |-> FALSE, box |-> c]]
      /\ tokens[k] = None
      /\ Cardinality(Active(tokens, e)) < MaxVerifiers
      /\ Hold(k, [email |-> e, revoked |-> FALSE]) \/ Lose
      /\ Answered /\ request.email = e
  BY <1>2, Zenon DEF CreateAppPassword, PersistCreate
<1>5. memory.tokens[k] = None
  BY <1>1, <1>4, Zenon DEF PassdbInv
<1>6. "token" \notin crossed => Exists(c) /\ boxes[c].email = e
  BY <1>1, <1>2, <1>3, Zenon DEF TokenInv
<1> HIDE DEF e, c
<1>7. Cardinality(Active(tokens', e)) <= MaxVerifiers
  <2> DEFINE row == [email |-> e, revoked |-> FALSE, box |-> c]
  <2>1. row.email = e /\ row.revoked = FALSE /\ row \in TokenRow
    BY <1>3, Zenon DEF TokenRow
  <2> HIDE DEF row
  <2>2. tokens'[k] = row /\ row # None /\ \A j \in Token : j # k => tokens'[j] = tokens[j]
    BY <1>1, <1>4, <2>1, RowAssumption, Zenon DEF TablesType, row
  <2>3. Active(tokens', e) = Active(tokens, e) \cup {k} /\ k \notin Active(tokens, e)
    BY <1>4, <2>1, <2>2, Zenon DEF Active
  <2>4. IsFiniteSet(Active(tokens, e))
    BY <1>1, ActiveIsFinite, Zenon DEF TokenInv
  <2>5. /\ Cardinality(Active(tokens', e)) = Cardinality(Active(tokens, e)) + 1
        /\ Cardinality(Active(tokens, e)) \in Nat
    BY <2>3, <2>4, FS_AddElement, FS_CardinalityType, Zenon
  <2>6. QED
    BY <1>4, <2>5, IdentityAssumption
<1>8. QED
  BY <1>3, <1>4, <1>5, <1>6, <1>7, TokenStep, Zenon

\* Revoking an app password keeps the invariant.
LEMMA RevokeStep ==
    ASSUME IdentityInv, NEW k \in Token, RevokeAppPassword(k)
    PROVE  IdentityInv'
<1>1. TablesType /\ ServerType /\ TokenInv /\ PassdbInv
  BY Zenon DEF IdentityInv
<1>2. PICK q \in Session : request = q
  BY <1>1, Zenon DEF RevokeAppPassword, MayManage, ServerType
<1> DEFINE e == q.email
           c == tokens[k].box
<1>3. /\ tokens' = [tokens EXCEPT ![k] = [email |-> e, revoked |-> TRUE, box |-> c]]
      /\ tokens[k] # None /\ tokens[k].email = e
      /\ k \in Active(memory.tokens, e)
      /\ Hold(k, [email |-> e, revoked |-> TRUE]) \/ Lose
      /\ Answered /\ request.email = e
  BY <1>2, Zenon DEF RevokeAppPassword, PersistRevoke
<1>4. e \in Address /\ c \in Box
  BY <1>1, <1>3, RowTypes, Zenon DEF Session, TokenRow
<1>5. memory.tokens[k].email = e
  BY <1>3, Zenon DEF Active
<1>6. "token" \notin crossed => Exists(c) /\ boxes[c].email = e
  BY <1>1, <1>3, Zenon DEF TokenInv
<1>7. ASSUME "token" \notin crossed PROVE Cardinality(Active(tokens', e)) <= MaxVerifiers
  <2> DEFINE row == [email |-> e, revoked |-> TRUE, box |-> c]
  <2>1. row.revoked = TRUE
    BY Zenon
  <2> HIDE DEF row
  <2>2. tokens'[k] = row /\ \A j \in Token : j # k => tokens'[j] = tokens[j]
    BY <1>1, <1>3, Zenon DEF TablesType, row
  <2>3. Active(tokens', e) \subseteq Active(tokens, e)
    BY <2>1, <2>2, Zenon DEF Active
  <2>4. IsFiniteSet(Active(tokens, e))
    BY <1>1, ActiveIsFinite, Zenon DEF TokenInv
  <2>5. Cardinality(Active(tokens, e)) <= MaxVerifiers
    BY <1>1, <1>4, <1>7, Zenon DEF TokenInv
  <2>6. QED
    BY <2>3, <2>4, <2>5, FewerAreFew, Zenon
<1>8. PICK f \in Address, d \in Box : f = e /\ d = c
  BY <1>4, Zenon
<1>9. /\ tokens' = [tokens EXCEPT ![k] = [email |-> f, revoked |-> TRUE, box |-> d]]
      /\ tokens[k] # None => tokens[k].email = f /\ tokens[k].box = d
      /\ memory.tokens[k] # None => memory.tokens[k].email = f
      /\ "token" \notin crossed => Exists(d) /\ boxes[d].email = f
      /\ "token" \notin crossed => Cardinality(Active(tokens', f)) <= MaxVerifiers
      /\ Hold(k, [email |-> f, revoked |-> TRUE]) \/ Lose
      /\ Answered /\ request.email = f
  BY <1>3, <1>5, <1>6, <1>7, <1>8, Zenon
<1>10. QED
  BY <1>9, TokenStep, Zenon

-----------------------------------------------------------------------------
(* Every step, and what follows *)

\* The invariant holds at first.
LEMMA IdentityInit == Init => IdentityInv
<1> SUFFICES ASSUME Init PROVE IdentityInv
  BY Zenon
<1>1. PICK place \in [Legacy -> Address], on \in [Legacy -> BOOLEAN], held \in [Legacy -> Password] :
          /\ \A b, c \in Legacy : place[b] = place[c] => b = c
          /\ boxes = [b \in Box |->
                IF b \in Legacy
                THEN [email |-> place[b], enabled |-> on[b], verifier |-> held[b], owner |-> None]
                ELSE None]
  BY Zenon DEF Init
<1>2. /\ users = [u \in User |-> None] /\ buried = {} /\ members = {}
      /\ tokens = [k \in Token |-> None] /\ refs = [s \in Subject |-> None]
      /\ logins = [w \in Login |-> Fresh("new")]
      /\ tx = None /\ pending = None /\ request = None /\ crossed = {}
      /\ memory = Loaded /\ passdb = Bound(Loaded) /\ shared = (Legacy # {})
  BY Zenon DEF Init
<1>3. /\ \A b \in Legacy : [email |-> place[b], enabled |-> on[b], verifier |-> held[b],
                            owner |-> None] \in BoxRow
      /\ boxes \in [Box -> BoxRow \cup {None}]
  BY <1>1, Zenon DEF BoxRow
<1>4. \A b \in Box : /\ Exists(b) <=> b \in Legacy
                     /\ Exists(b) => boxes[b].owner = None /\ boxes[b].email = place[b]
  BY <1>1, <1>3, RowAssumption, Zenon DEF Exists, Box
<1>5. TablesType
  BY <1>2, <1>3, Zenon DEF TablesType
<1>6. OwnersInv
  <2>1. None \notin User /\ User \cap Legacy = {} /\ User \subseteq Box
    BY IdentityAssumption, Zenon DEF Box
  <2>2. \A u \in User : users[u] = None /\ Owned(u) = {} /\ ~Exists(u)
    BY <1>2, <1>4, <2>1, Zenon DEF Owned
  <2>3. \A b, c \in Box : Exists(b) /\ Exists(c) /\ boxes[b].email = boxes[c].email => b = c
    BY <1>1, <1>4, Zenon
  <2>4. QED
    BY <1>2, <2>2, <2>3, Zenon DEF OwnersInv
<1>7. StartInv
  BY <1>5, <1>6, StartFacts, Zenon
<1>8. Fresh("new") \in LoginRow /\ Fresh("new").state = "new"
  BY Zenon DEF Fresh, LoginRow
<1>9. \A w \in Login : logins[w].state = "new"
  BY <1>2, <1>8, Zenon
<1>10. ServerType
  <2>1. logins \in [Login -> LoginRow]
    BY <1>2, <1>8, Zenon
  <2>2. shared \in BOOLEAN
    BY <1>2, Zenon
  <2>3. QED
    BY <1>2, <1>7, <2>1, <2>2, Zenon DEF ServerType, StartInv
<1>11. TxInv
  BY <1>2, Zenon DEF TxInv
<1>12. BindingInv /\ SubjectInv /\ SessionInv
  BY <1>2, <1>9, Zenon DEF BindingInv, SubjectInv, SessionInv
<1>13. TokenInv
  <2>1. Issued = {} /\ \A e \in Address : Active(tokens, e) = {}
    BY <1>2, Zenon DEF Issued, Active
  <2>2. IsFiniteSet({}) /\ Cardinality({}) = 0
    BY FS_EmptySet, Zenon
  <2>3. \A e \in Address : Cardinality(Active(tokens, e)) <= MaxVerifiers
    BY <2>1, <2>2, IdentityAssumption
  <2>4. QED
    BY <1>2, <2>1, <2>2, <2>3, Zenon DEF TokenInv
<1>14. PassdbInv
  <2>1. shared => passdb.hosted
    BY <1>2, <1>4, <1>7, Zenon DEF StartInv, Box
  <2>2. QED
    BY <1>2, <1>7, <2>1, Zenon DEF PassdbInv, StartInv
<1>15. MirrorInv
  BY <1>2, Zenon DEF MirrorInv, AfterBoxes, AfterTokens
<1>16. QED
  BY <1>5, <1>6, <1>10, <1>11, <1>12, <1>13, <1>14, <1>15, Zenon DEF IdentityInv

\* The invariant depends on the state alone.
LEMMA IdentityStays == IdentityInv /\ UNCHANGED vars => IdentityInv'
<1> SUFFICES ASSUME IdentityInv, UNCHANGED vars PROVE IdentityInv'
  BY Zenon
<1>1. /\ UNCHANGED <<users, buried, members, boxes, tokens, refs>>
      /\ UNCHANGED <<pending, memory, passdb, shared, request, logins, tx, crossed>>
  BY Zenon DEF vars, database, server
<1>2. TablesType' /\ ServerType'
  BY <1>1, Zenon DEF IdentityInv, TablesType, ServerType
<1>3. QED
  BY <1>1, <1>2, Frames, Zenon DEF IdentityInv

\* Every step keeps the invariant.
LEMMA IdentityStep == IdentityInv /\ [Next]_vars => IdentityInv'
<1> SUFFICES ASSUME IdentityInv, [Next]_vars PROVE IdentityInv'
  BY Zenon
<1>1. CASE UNCHANGED vars
  BY <1>1, IdentityStays, Zenon
<1>2. CASE \E u \in User : \/ \E doc \in Document : BeginCreate(u, doc) \/ BeginReplace(u, doc)
                           \/ BeginDelete(u)
                           \/ \E b \in Box, s \in Subject : BeginAdopt(u, b, s)
  BY <1>2, BeginStep, Zenon
<1>3. CASE Commit \/ CommitLost
  BY <1>3, CommitStep, Zenon
<1>4. CASE Abort \/ \E ms \in SUBSET User : PutGroup(ms)
  BY <1>4, GroupStep, Zenon
<1>5. CASE Project
  BY <1>5, ProjectStep, Zenon
<1>6. CASE Restart
  BY <1>6, RestartStep, Zenon
<1>7. CASE \E w \in Login : \/ StartLogin(w) \/ ConsumeAttempt(w) \/ LoginFails(w)
                            \/ SessionExpires(w)
  BY <1>7, SimpleLoginStep, Zenon
<1>8. CASE \E w \in Login, s \in Subject, e \in Address : ResolveIdentity(w, s, e)
  BY <1>8, ResolveStep, Zenon
<1>9. CASE \E w \in Login : PutIdentitySession(w)
  BY <1>9, SessionStep, Zenon
<1>10. CASE (\E w \in Login : Authenticate(w)) \/ RequestFails
  BY <1>10, RequestStep, Zenon
<1>11. CASE \E k \in Token : CreateAppPassword(k)
  BY <1>11, CreateStep, Zenon
<1>12. CASE \E k \in Token : RevokeAppPassword(k)
  BY <1>12, RevokeStep, Zenon
<1>13. QED
  BY <1>1, <1>2, <1>3, <1>4, <1>5, <1>6, <1>7, <1>8, <1>9, <1>10, <1>11, <1>12, Zenon DEF Next

\* The invariant implies that the tables agree.
LEMMA TablesFollow == IdentityInv => TablesAgree
<1> SUFFICES ASSUME IdentityInv PROVE TablesAgree
  BY Zenon
<1>1. TablesType /\ OwnersInv /\ SubjectInv /\ TokenInv
  BY Zenon DEF IdentityInv
<1>2. ASSUME NEW e \in Address PROVE Cardinality(At(e)) <= 1
  <2>1. CASE At(e) = {}
    <3>1. Cardinality({}) = 0
      BY FS_EmptySet, Zenon
    <3>2. QED
      BY <2>1, <3>1
  <2>2. CASE At(e) # {}
    <3>1. PICK b \in Box : At(e) = {b}
      BY <1>1, <2>2 DEF OwnersInv, At
    <3>2. Cardinality({b}) = 1
      BY FS_Singleton, Zenon
    <3>3. QED
      BY <3>1, <3>2
  <2>3. QED
    BY <2>1, <2>2, Zenon
<1>3. RecordMatchesMailbox
  BY <1>1, <1>2, Zenon DEF OwnersInv, RecordMatchesMailbox
<1>4. GroupMembersAreLive
  BY <1>1, Zenon DEF OwnersInv, GroupMembersAreLive
<1>5. BoundToOwner
  BY <1>1, Zenon DEF SubjectInv, SubjectOf, BoundToOwner
<1>6. LimitHolds
  BY <1>1, Zenon DEF TokenInv, LimitHolds
<1>7. QED
  BY <1>3, <1>4, <1>5, <1>6, Zenon DEF TablesAgree

\* The invariant implies that no session revives.
LEMMA SessionsFollow == IdentityInv => NoRevival
BY Zenon DEF IdentityInv, SessionInv, BindingInv, NoRevival

\* What the listeners answer from, of one address.
LEMMA ServedFacts ==
    ASSUME ServerType, NEW e \in Address
    PROVE  /\ Served.unavailable = FALSE
           /\ e \in DOMAIN Served.mailboxes <=> shared /\ passdb.boxes[e] # None
           /\ e \in DOMAIN Served.mailboxes => Served.mailboxes[e] = passdb.boxes[e]
           /\ e \in DOMAIN Served.verifiers <=> shared /\ passdb.boxes[e] # None
           /\ e \in DOMAIN Served.verifiers => Served.verifiers[e] = passdb.verifiers[e]
           /\ DOMAIN Served.aliases = {}
           /\ shared /\ passdb.hosted =>
                 DOMAIN Served.domains = {"local"} /\ Served.domains["local"].enabled = TRUE
BY Zenon DEF Served

\* The invariant implies that an app password opens its own mailbox.
LEMMA AppPasswordsFollow == IdentityInv => AppPasswordOpensOwnMailbox
<1> SUFFICES ASSUME IdentityInv, pending = None, crossed \cap {"token", "answer"} = {},
                    NEW e \in Address, NEW k \in Token, FrontLogin(Served, e, k) = "accepted"
             PROVE  /\ tokens[k] # None
                    /\ ~tokens[k].revoked
                    /\ boxes[tokens[k].box].email = e
                    /\ boxes[tokens[k].box].enabled
  BY Zenon DEF AppPasswordOpensOwnMailbox
<1>1. TablesType /\ ServerType /\ OwnersInv /\ TokenInv /\ PassdbInv /\ MirrorInv /\ LoadedInv
  BY LoadedFacts, Zenon DEF IdentityInv
<1>2. PICK d : d = Served
  BY Zenon
<1>3. /\ d.unavailable = FALSE
      /\ e \in DOMAIN d.mailboxes <=> shared /\ passdb.boxes[e] # None
      /\ e \in DOMAIN d.mailboxes => d.mailboxes[e] = passdb.boxes[e]
      /\ e \in DOMAIN d.verifiers <=> shared /\ passdb.boxes[e] # None
      /\ e \in DOMAIN d.verifiers => d.verifiers[e] = passdb.verifiers[e]
  BY <1>1, <1>2, ServedFacts, Zenon
<1>4. DovecotPassdb(d, e, k) = "ok"
  BY <1>2, Zenon DEF FrontLogin, Front
<1>5. PostfixMailbox(d, e) = "ok"
  BY <1>4, Zenon DEF DovecotPassdb
<1>6. e \in DOMAIN d.mailboxes /\ d.mailboxes[e].enabled
  BY <1>3, <1>5, Zenon DEF PostfixMailbox, Lookup
<1>7. /\ memory.boxes = Loaded.boxes /\ memory.tokens = Loaded.tokens
      /\ passdb.boxes = memory.boxes
      /\ memory.boxes[e] # None /\ passdb.verifiers[e] = Active(memory.tokens, e)
  BY <1>1, <1>3, <1>6, Zenon DEF MirrorInv, AfterBoxes, AfterTokens, PassdbInv
<1>8. d.mailboxes[e].verifier # k
  <2>1. d.mailboxes[e] \in Entry
    <3>1. Loaded.boxes \in [Address -> Entry \cup {None}]
      BY <1>1, Zenon DEF LoadedInv
    <3>2. QED
      BY <1>3, <1>6, <1>7, <3>1, Zenon
  <2>2. QED
    BY <2>1, IdentityAssumption, Zenon DEF Entry
<1>9. k \in Active(Loaded.tokens, e)
  <2>1. k \in d.verifiers[e] /\ e \in DOMAIN d.verifiers
    BY <1>3, <1>4, <1>5, <1>6, <1>8, Zenon DEF DovecotPassdb
  <2>2. QED
    BY <1>3, <1>7, <2>1, Zenon
<1>10. tokens[k] # None /\ tokens[k].email = e /\ ~tokens[k].revoked
  <2>1. /\ Loaded.tokens[k] # None /\ Loaded.tokens[k].email = e /\ ~Loaded.tokens[k].revoked
    BY <1>9, Zenon DEF Active
  <2>2. tokens[k] # None
    BY <1>1, <2>1, Zenon DEF LoadedInv
  <2>3. Loaded.tokens[k] = [email |-> tokens[k].email, revoked |-> tokens[k].revoked]
    BY <1>1, <2>2, Zenon DEF LoadedInv
  <2>4. QED
    BY <2>1, <2>2, <2>3
<1>11. Exists(tokens[k].box) /\ boxes[tokens[k].box].email = e /\ tokens[k].box \in Box
  BY <1>1, <1>10, RowTypes, Zenon DEF TokenInv, TokenRow
<1>12. Loaded.boxes[e] = EntryIn(tokens[k].box)
  BY <1>1, <1>11, Zenon DEF LoadedInv, At
<1>13. EntryIn(tokens[k].box).enabled
  BY <1>3, <1>6, <1>7, <1>12, Zenon
<1>14. QED
  BY <1>10, <1>11, <1>13, Zenon DEF EntryIn

\* The fields of an entry.
LEMMA EntryFields ==
    \A b : EntryIn(b).enabled = boxes[b].enabled /\ EntryIn(b).verifier = boxes[b].verifier
BY Zenon DEF EntryIn

\* The invariant implies that answers follow the tables.
LEMMA AnswersFollow == IdentityInv => AnswersFollowTheTables
<1> DEFINE said(e) == IF At(e) = {} THEN "not_found"
                      ELSE IF \A b \in At(e) : boxes[b].enabled THEN "ok" ELSE "reject"
<1> SUFFICES ASSUME IdentityInv, shared, pending = None, "answer" \notin crossed,
                    NEW e \in Address
             PROVE  /\ \A answer \in {PostfixRecipient(Served, e), PostfixSenderLogin(Served, e, e),
                                      PostfixSenderPolicy(Served, e), DovecotUserdb(Served, e),
                                      DovecotQuota(Served, e), DovecotSieve(Served, e)} :
                          answer = said(e)
                    /\ FrontRecipient(Served, e) = "accepted" <=> said(e) = "ok"
                    /\ handlePostfixPolicy(Served, "local", e) = "dunno" <=> said(e) = "ok"
                    /\ said(e) = "ok" => "local" \in RspamdLocalDomains(Served)
                    /\ \A b \in At(e) : \A p \in Password :
                          FrontLogin(Served, e, p) = "accepted"
                             <=> boxes[b].enabled /\ boxes[b].verifier = p
  BY Zenon DEF AnswersFollowTheTables
<1>1. TablesType /\ ServerType /\ OwnersInv /\ PassdbInv /\ MirrorInv /\ LoadedInv
  BY LoadedFacts, Zenon DEF IdentityInv
<1>2. PICK d : d = Served
  BY Zenon
<1>3. passdb.boxes = Loaded.boxes /\ passdb.hosted
  BY <1>1, Zenon DEF MirrorInv, AfterBoxes, PassdbInv
<1>4. /\ d.unavailable = FALSE /\ DOMAIN d.aliases = {}
      /\ e \in DOMAIN d.mailboxes <=> Loaded.boxes[e] # None
      /\ e \in DOMAIN d.mailboxes => d.mailboxes[e] = Loaded.boxes[e]
      /\ e \in DOMAIN d.verifiers => d.verifiers[e] = passdb.verifiers[e]
      /\ DOMAIN d.domains = {"local"} /\ d.domains["local"].enabled = TRUE
  BY <1>1, <1>2, <1>3, ServedFacts, Zenon
<1>5. /\ At(e) = {} => e \notin DOMAIN d.mailboxes
      /\ \A b \in At(e) : /\ At(e) = {b} /\ e \in DOMAIN d.mailboxes
                          /\ d.mailboxes[e] = EntryIn(b)
                          /\ boxes[b].enabled \in BOOLEAN
  <2>1. \A b \in At(e) : At(e) = {b} /\ Exists(b) /\ b \in Box
    BY <1>1, Zenon DEF At, OwnersInv
  <2>2. ASSUME NEW b \in At(e)
        PROVE  Loaded.boxes[e] = EntryIn(b) /\ EntryIn(b) # None /\ boxes[b].enabled \in BOOLEAN
    <3>1. Loaded.boxes[e] = EntryIn(b) /\ EntryIn(b) \in Entry
      BY <1>1, <2>1, Zenon DEF LoadedInv
    <3>2. boxes[b] \in BoxRow
      BY <1>1, <2>1, RowTypes, Zenon
    <3>3. EntryIn(b) # None
      BY <3>1, RowAssumption, Zenon
    <3>4. QED
      BY <3>1, <3>2, <3>3, Zenon DEF BoxRow
  <2>3. At(e) = {} => Loaded.boxes[e] = None
    BY <1>1, Zenon DEF LoadedInv
  <2>4. QED
    BY <1>4, <2>1, <2>2, <2>3, Zenon
<1>6. PostfixMailbox(d, e) = said(e)
  <2>1. CASE At(e) = {}
    BY <1>4, <1>5, <2>1, Zenon DEF PostfixMailbox, Lookup
  <2>2. CASE At(e) # {}
    <3>1. PICK b \in At(e) : TRUE
      BY <2>2, Zenon
    <3>2. said(e) = IF boxes[b].enabled THEN "ok" ELSE "reject"
      BY <1>5, <2>2, <3>1, Zenon
    <3>3. e \in DOMAIN d.mailboxes /\ d.mailboxes[e].enabled = boxes[b].enabled
      BY <1>5, EntryFields, Zenon
    <3>4. QED
      BY <1>4, <3>2, <3>3, Zenon DEF PostfixMailbox, Lookup
  <2>3. QED
    BY <2>1, <2>2, Zenon
<1>7. e \notin DOMAIN d.mailboxes => said(e) = "not_found"
  BY <1>5, Zenon
<1>8. said(e) \in {"not_found", "ok", "reject"}
  BY Zenon
<1> HIDE DEF said
<1>9. PostfixRecipient(d, e) = said(e)
  <2>1. e \notin DOMAIN d.mailboxes => PostfixAlias(d, e) = "not_found"
    BY <1>4, Zenon DEF PostfixAlias, Lookup
  <2>2. QED
    BY <1>6, <1>7, <2>1, Zenon DEF PostfixRecipient
<1>10. /\ PostfixSenderLogin(d, e, e) = said(e) /\ PostfixSenderPolicy(d, e) = said(e)
       /\ DovecotUserdb(d, e) = said(e) /\ DovecotQuota(d, e) = said(e)
       /\ DovecotSieve(d, e) = said(e)
  BY <1>6, Zenon DEF PostfixSenderLogin, PostfixSenderPolicy, DovecotUserdb, DovecotQuota, DovecotSieve
<1>11. FrontRecipient(d, e) = "accepted" <=> said(e) = "ok"
  BY <1>8, <1>9, Zenon DEF FrontRecipient, Front
<1>12. PostfixDomain(d, "local") = "ok" /\ "local" \in RspamdLocalDomains(d)
  BY <1>4, Zenon DEF PostfixDomain, Lookup, RspamdLocalDomains
<1>13. handlePostfixPolicy(d, "local", e) = "dunno" <=> said(e) = "ok"
  BY <1>8, <1>9, <1>12, Zenon DEF handlePostfixPolicy
<1>14. ASSUME NEW b \in At(e), NEW p \in Password
       PROVE  FrontLogin(d, e, p) = "accepted" <=> boxes[b].enabled /\ boxes[b].verifier = p
  <2>1. /\ e \in DOMAIN d.mailboxes /\ d.mailboxes[e].verifier = boxes[b].verifier
        /\ d.mailboxes[e].enabled = boxes[b].enabled
    BY <1>5, EntryFields, Zenon
  <2>2. PostfixMailbox(d, e) = IF boxes[b].enabled THEN "ok" ELSE "reject"
    BY <1>4, <2>1, Zenon DEF PostfixMailbox, Lookup
  <2>3. FrontLogin(d, e, p) = "accepted" <=> DovecotPassdb(d, e, p) = "ok"
    BY Zenon DEF FrontLogin, Front
  <2>4. p \notin (IF e \in DOMAIN d.verifiers THEN d.verifiers[e] ELSE {})
    <3>1. passdb.verifiers[e] \subseteq Token
      BY <1>1, Zenon DEF ServerType
    <3>2. QED
      BY <1>4, <3>1, IdentityAssumption, Zenon
  <2>5. CASE ~boxes[b].enabled
    BY <2>2, <2>3, <2>5, Zenon DEF DovecotPassdb
  <2>6. CASE boxes[b].enabled /\ boxes[b].verifier = p
    BY <2>1, <2>2, <2>3, <2>6, Zenon DEF DovecotPassdb
  <2>7. CASE boxes[b].enabled /\ boxes[b].verifier # p
    BY <2>1, <2>2, <2>3, <2>4, <2>7, Zenon DEF DovecotPassdb
  <2>8. QED
    BY <2>5, <2>6, <2>7, Zenon
<1>15. QED
  BY <1>2, <1>9, <1>10, <1>11, <1>12, <1>13, <1>14, Zenon

\* The inductive invariant of users, mailboxes, app passwords, logins and the
\* projection the server keeps of them, through every step of a transaction.
THEOREM IdentityInvariant == Spec => []IdentityInv
BY IdentityInit, IdentityStep, PTL DEF Spec

\* The tables of users, groups, mailboxes, app passwords and identities agree,
\* whichever SCIM transactions, adoptions, logins and app-password requests
\* overlap (scimstore, identityadopt, authn and identity).
THEOREM TablesAlwaysAgree == Spec => []TablesAgree
BY IdentityInvariant, TablesFollow, PTL

\* Enabling a mailbox again revives no session (RevokeSessions in scimstore and
\* PutIdentitySession in authn).
THEOREM NoSessionRevives == Spec => []NoRevival
BY IdentityInvariant, SessionsFollow, PTL

\* An app password that is accepted opens the mailbox it was created for, and
\* was not revoked (identity.Service and what it tells the daemon).
THEOREM AppPasswordsOpenOwnMailbox == Spec => []AppPasswordOpensOwnMailbox
BY IdentityInvariant, AppPasswordsFollow, PTL

\* What Postfix, Dovecot, rspamd and the mail front are told of an address is
\* what the tables say of it (daemon.Service).
THEOREM AnswersAlwaysFollow == Spec => []AnswersFollowTheTables
BY IdentityInvariant, AnswersFollow, PTL
=============================================================================
