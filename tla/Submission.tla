----------------------------- MODULE Submission -----------------------------
(***************************************************************************)
(* One message from the first RCPT to the transport decision: the policy   *)
(* decision on each recipient (decision.go), the expansion of aliases,     *)
(* forwards, lists and catch-alls (admission.go) and the registration of   *)
(* the queued message with the sources that govern it.                     *)
(*                                                                         *)
(* The alias graph is loaded one breadth layer per SQL query and outside a *)
(* transaction: aliases, mailboxes and domains are enabled and disabled,   *)
(* and policies change, between any two queries.  The transport decision   *)
(* is one step here; OutboundQueue has it in full.                         *)
(***************************************************************************)
EXTENDS OutboundPolicy, FiniteSets

CONSTANTS
    Address,        \* canonical addresses, hosted here or not
    Mailbox,        \* the addresses that have a mailbox row
    Alias,          \* the rows of the aliases table
    AliasName,      \* the address of an alias row, or "*"
    SystemSender,   \* the rows of outbound_system_senders
    HomeDomain,     \* the domain of an address, an alias or a system sender
    Tables,         \* the targets the alias rows may have
    Rcpt,           \* the recipients a client names
    Edited,         \* the rows that are enabled and disabled meanwhile
    InitiallyOff,   \* the rows that are disabled at first
    MaxSources,     \* maxQueueSources and maxExpansionAliases, 64 in the code
    MaxRecipients,  \* maxQueueRecipients, 10,000 in the code
    MaxEdits,       \* bound on the changes of rows and policies
    NoLetter, NoLookup

VARIABLES
    \* PostgreSQL: the targets of each alias, the rows (domains included)
    \* with enabled = true, the domains with scope same_domain_only.
    targets, live, confined,
    letter,   \* the message
    lookup,   \* the decision or admission in progress
    edits     \* how often rows or policies were changed

submissionVars == <<targets, live, confined, letter, lookup, edits>>

LookupAt(step) == lookup # NoLookup /\ lookup.pc = step

(***************************************************************************)
(* The query of loadExpansionAliases for one address: its enabled alias    *)
(* rows (local parts that differ in case are rows of their own), or the    *)
(* catch-all of its domain when it has neither an alias nor a mailbox.     *)
(***************************************************************************)
AliasRows(x) ==
    LET here  == {r \in Alias \cap live : HomeDomain[r] = HomeDomain[x]}
        exact == {r \in here : AliasName[r] = x}
    IN  IF HomeDomain[x] \notin live THEN {}
        ELSE IF exact # {} THEN exact
        ELSE IF x \in Mailbox \cap live THEN {}
        ELSE {r \in here : AliasName[r] = "*"}

\* walkExpansionGraph: graph is a function from the addresses that have an
\* alias to its row.  Any failure fails the whole expansion.
RECURSIVE walkExpansionGraph(_, _, _)
walkExpansionGraph(graph, current, active) ==
    IF current \notin DOMAIN graph THEN
        [fails |-> FALSE, leaves |-> {current}, sources |-> {}]
    ELSE IF current \in active \/ Cardinality(active) >= MaxSources THEN
        [fails |-> TRUE, leaves |-> {}, sources |-> {}]
    ELSE
        LET below == {walkExpansionGraph(graph, t, active \union {current}) :
                          t \in targets[graph[current]]}
            leaves == UNION {w.leaves : w \in below}
            sources == {graph[current]} \union UNION {w.sources : w \in below}
        IN  [fails   |-> \/ \E w \in below : w.fails
                         \/ Cardinality(leaves) > MaxRecipients
                         \/ Cardinality(sources) > MaxSources,
             leaves  |-> leaves,
             sources |-> sources]

\* Wrong: the recipient is judged under its sources, its leaves are not.
expandOriginalUnfollowed(graph, original) ==
    [walkExpansionGraph(graph, original, {}) EXCEPT !.leaves = {original}]

expandOriginal(graph, original) == walkExpansionGraph(graph, original, {})

\* submissionSources gives a mailbox as two sources, a system sender as one.
AuthorityCount(sender) == IF sender \in SystemSender THEN 1 ELSE 2

\* resolvePolicySources: every source and its domain must be enabled.
Resolvable(sender, sources) ==
    /\ AuthorityCount(sender) + Cardinality(sources) <= MaxSources
    /\ \A s \in sources \union {sender} : {s, HomeDomain[s]} \subseteq live

GoverningFor(sender, sources) ==
    {[domain |-> HomeDomain[s],
      scope |-> IF HomeDomain[s] \in confined THEN "same_domain_only" ELSE "unrestricted",
      revision |-> 1] : s \in sources \union {sender}}

PermitsAll(finals, sender, sources) ==
    \A f \in finals : Permits(HomeDomain[f], GoverningFor(sender, sources))

-----------------------------------------------------------------------------
(* Submission *)

\* A client authenticates, or a draft is submitted, and names its recipients.
Submit(way, sender) ==
    /\ letter = NoLetter
    /\ way = "webmail" => sender \in Mailbox
    /\ letter' = [way |-> way, sender |-> sender, accepted |-> {}, phase |-> "rcpt",
                  deliveries |-> {}, sources |-> {}, touched |-> {},
                  steady |-> TRUE]
    /\ UNCHANGED <<targets, live, confined, lookup, edits>>

Lookup(pc, originals) ==
    [pc |-> pc, originals |-> originals, frontier |-> originals, seen |-> {}, depth |-> 0,
     graph |-> <<>>, leaves |-> originals, sources |-> {}, steady |-> TRUE]

\* The authority resolves to an enabled object; when it does not, the answer
\* is a deferral and nothing changes.
Authorized == {letter.sender, HomeDomain[letter.sender]} \subseteq live

\* PostfixSubmissionRecipient calls Decide, which judges the recipient as it
\* is named; Submit of webmail.go calls DecideSMTPRecipient, which expands it.
BeginDecision(o) ==
    /\ letter # NoLetter /\ letter.phase = "rcpt" /\ lookup = NoLookup
    /\ o \notin letter.accepted
    /\ Authorized
    /\ lookup' = Lookup(IF letter.way = "smtp" THEN "judge" ELSE "load", {o})
    /\ UNCHANGED <<targets, live, confined, letter, edits>>

Batch == lookup.frontier \ lookup.seen
Found == {x \in Batch : AliasRows(x) # {}}

LayersDone ==
    \/ lookup.frontier = {}
    \/ lookup.depth < MaxSources /\ Batch = {}

\* Depth, fan-out, number of aliases and one row per address.
WithinLimits ==
    /\ lookup.depth < MaxSources
    /\ Cardinality(lookup.seen \union Batch) <= MaxRecipients
    /\ Cardinality(DOMAIN lookup.graph) + Cardinality(Found) <= MaxSources
    /\ \A x \in Found : Cardinality(AliasRows(x)) = 1

\* Wrong: the targets of the aliases found are not looked up.
LoadFirstLayer ==
    /\ LookupAt("load") /\ ~LayersDone /\ WithinLimits
    /\ lookup' = [lookup EXCEPT
           !.seen = @ \union Batch,
           !.depth = @ + 1,
           !.graph = [x \in Found |-> CHOOSE r \in AliasRows(x) : TRUE],
           !.frontier = {}]
    /\ UNCHANGED <<targets, live, confined, letter, edits>>

\* One iteration of the loop of loadExpansionAliases: one query.
LoadLayer ==
    /\ LookupAt("load") /\ ~LayersDone /\ WithinLimits
    /\ LET row(x) == CHOOSE r \in AliasRows(x) : TRUE
           known  == DOMAIN lookup.graph
       IN  lookup' = [lookup EXCEPT
               !.seen = @ \union Batch,
               !.depth = @ + 1,
               !.graph = [x \in known \union Found |->
                             IF x \in known THEN lookup.graph[x] ELSE row(x)],
               !.frontier = UNION {targets[row(x)] : x \in Found}]
    /\ UNCHANGED <<targets, live, confined, letter, edits>>

\* The graph is complete; expandOriginal walks it.
Expand(o) ==
    /\ LookupAt("load") /\ LayersDone
    /\ letter.phase = "rcpt" /\ o \in lookup.originals
    /\ LET walk == expandOriginal(lookup.graph, o)
       IN  /\ ~walk.fails
           /\ lookup' = [lookup EXCEPT !.pc = "judge", !.leaves = walk.leaves,
                                       !.sources = walk.sources]
    /\ UNCHANGED <<targets, live, confined, letter, edits>>

Answer(refused) ==
    /\ lookup' = NoLookup
    /\ letter' = IF letter.phase # "rcpt" THEN letter
                 ELSE IF ~refused THEN [letter EXCEPT !.accepted = @ \union lookup.originals]
                 ELSE IF letter.way = "webmail" THEN NoLetter
                 ELSE letter
    /\ UNCHANGED <<targets, live, confined, edits>>

Accept ==
    /\ LookupAt("judge")
    /\ Resolvable(letter.sender, lookup.sources)
    /\ PermitsAll(lookup.leaves, letter.sender, lookup.sources)
    /\ Answer(FALSE)

\* A forbidden leaf rejects the recipient; a source that does not resolve, an
\* expansion that fails and a query that fails defer it.  A webmail submission
\* ends with its first recipient that is not accepted.
RejectOrDefer ==
    /\ LookupAt("judge") \/ LookupAt("load")
    /\ Answer(TRUE)

-----------------------------------------------------------------------------
(* Queue *)

\* The addresses that those of S lead to, S included, through the enabled rows
\* of the addresses in Through.
RECURSIVE Closure(_, _)
Closure(S, Through) ==
    LET rows == UNION {AliasRows(x) : x \in S \cap Through}
        more == S \union UNION {targets[r] : r \in rows}
    IN  IF more = S THEN S ELSE Closure(more, Through)

RowsFrom(o) == UNION {AliasRows(x) : x \in Closure({o}, Address)}

Leaves(o) == {x \in Closure({o}, Address) : AliasRows(x) = {}}

Cyclic(o) ==
    \E x \in Closure({o}, Address) : \E r \in AliasRows(x) : x \in Closure(targets[r], Address)

\* Postfix expands the accepted recipients through the alias lookups and
\* queues the message; it bounces one whose aliases lead nowhere.
Enqueue ==
    /\ letter # NoLetter /\ letter.phase = "rcpt" /\ lookup = NoLookup
    /\ letter.accepted # {}
    /\ \A o \in letter.accepted : Leaves(o) # {}
    /\ letter' = [letter EXCEPT
           !.phase = "queued",
           !.deliveries = UNION {{o} \X Leaves(o) : o \in letter.accepted},
           !.touched = {}]
    /\ UNCHANGED <<targets, live, confined, lookup, edits>>

Finals == {d[2] : d \in letter.deliveries}

BeginAdmission ==
    /\ letter # NoLetter /\ letter.phase = "queued" /\ lookup = NoLookup
    /\ Authorized
    /\ lookup' = Lookup("load", {d[1] : d \in letter.deliveries})
    /\ UNCHANGED <<targets, live, confined, letter, edits>>

\* resolveExpansionDeliveries: the deliveries whose recipient is not the
\* original must be leaves of the original's expansion.
Indirect == {d \in letter.deliveries : d[1] # d[2]}

Proven ==
    \A d \in Indirect :
        LET walk == walkExpansionGraph(lookup.graph, d[1], {})
        IN  ~walk.fails /\ d[2] \in walk.leaves

ExpansionSources ==
    UNION {walkExpansionGraph(lookup.graph, d[1], {}).sources : d \in Indirect}

Admissible ==
    /\ Proven
    /\ AuthorityCount(letter.sender) + Cardinality(ExpansionSources) <= MaxSources

\* Wrong: the sender alone governs the message.
RegisterSender ==
    /\ LookupAt("load") /\ LayersDone /\ letter.phase = "queued"
    /\ Admissible
    /\ letter' = [letter EXCEPT !.phase = "registered"]
    /\ lookup' = NoLookup
    /\ UNCHANGED <<targets, live, confined, edits>>

\* The rest of Admit.
RegisterSources ==
    /\ LookupAt("load") /\ LayersDone /\ letter.phase = "queued"
    /\ Admissible
    /\ letter' = [letter EXCEPT !.phase = "registered", !.sources = ExpansionSources]
    /\ lookup' = NoLookup
    /\ UNCHANGED <<targets, live, confined, edits>>

\* The transport decision on every recipient: handed over, or held.
DecideTransport ==
    /\ letter # NoLetter /\ letter.phase = "registered"
    /\ Resolvable(letter.sender, letter.sources)
    /\ letter' = [letter EXCEPT !.phase =
           IF PermitsAll(Finals, letter.sender, letter.sources) THEN "handed" ELSE "held"]
    /\ UNCHANGED <<targets, live, confined, lookup, edits>>

-----------------------------------------------------------------------------
(* Administration meanwhile *)

Disturb(rows) ==
    /\ edits < MaxEdits
    /\ edits' = edits + 1
    /\ letter' = IF letter = NoLetter THEN letter
                 ELSE [letter EXCEPT !.steady = FALSE, !.touched = @ \union rows]
    /\ lookup' = IF lookup = NoLookup THEN lookup ELSE [lookup EXCEPT !.steady = FALSE]
    /\ UNCHANGED targets

\* A bulk operation enables or disables a row.
Toggle(r) ==
    /\ Disturb({r})
    /\ live' = IF r \in live THEN live \ {r} ELSE live \union {r}
    /\ UNCHANGED confined

\* An activation changes the scope of a domain.
ChangeScope(d) ==
    /\ Disturb({})
    /\ confined' = IF d \in confined THEN confined \ {d} ELSE confined \union {d}
    /\ UNCHANGED live

HostedDomain == {HomeDomain[r] : r \in Alias \union Mailbox \union SystemSender}

SubmissionInit ==
    /\ targets \in Tables
    /\ live = (Alias \union Mailbox \union SystemSender \union HostedDomain) \ InitiallyOff
    /\ confined \in SUBSET HostedDomain
    /\ letter = NoLetter /\ lookup = NoLookup /\ edits = 0

SubmissionNext ==
    \/ \E way \in {"smtp", "webmail"}, s \in Mailbox \union SystemSender : Submit(way, s)
    \/ \E o \in Rcpt : BeginDecision(o)
    \/ LoadLayer
    \/ \E o \in Rcpt : Expand(o)
    \/ Accept
    \/ RejectOrDefer
    \/ Enqueue
    \/ BeginAdmission
    \/ RegisterSources
    \/ DecideTransport
    \/ \E r \in Edited : Toggle(r)
    \/ \E d \in HostedDomain : ChangeScope(d)

-----------------------------------------------------------------------------
\* When no row changes while the layers are loaded, the expansion of
\* loadExpansionAliases and walkExpansionGraph (admission.go:203-375) is exact:
\* it fails when the aliases of an original form a cycle and only then, and
\* otherwise has every address the original leads to and every alias on the way.
ExpansionIsExact ==
    LookupAt("load") /\ lookup.steady /\ LayersDone =>
        \A o \in lookup.originals :
            LET walk == expandOriginal(lookup.graph, o)
            IN  /\ walk.fails <=> Cyclic(o)
                /\ ~walk.fails => walk.leaves = Leaves(o) /\ walk.sources = RowsFrom(o)

\* The rows that could answer for an address were not changed since the message
\* was queued.
Untouched(x) ==
    LET answering == {r \in Alias : AliasName[r] \in {x, "*"} /\ HomeDomain[r] = HomeDomain[x]}
    IN  letter.touched \cap (answering \union {x, HomeDomain[x]}) = {}

\* The aliases Postfix went through, as far as none on the way was changed.
Followed ==
    LET lasting == {x \in Address : Untouched(x)}
        reached == Closure({d[1] : d \in letter.deliveries}, lasting)
    IN  UNION {AliasRows(x) : x \in reached \cap lasting}

\* "No indirection may turn an allowed local recipient into an external
\* delivery" (PRD-v1-mail-core.md:39): at the handoff, the policies of the sender
\* and of every alias that Postfix went through permit every recipient, whatever
\* is enabled, disabled or activated between the queries of Admit (admission.go:39);
\* only an alias behind one that was itself changed in the meantime may be missed.
NothingEscapes ==
    [][letter # NoLetter /\ letter.phase = "registered" /\ letter'.phase = "handed" =>
         \A f \in Finals : \A s \in Followed \union {letter.sender} :
             HomeDomain[s] \in confined => HomeDomain[s] = HomeDomain[f]]_submissionVars

\* A recipient that DecideSMTPRecipient (decision.go:106) accepts alone is neither
\* refused at the admission of the message nor held at its transport, when no row
\* and no policy changes: the decision and the admission see the same sources.
WebmailAcceptanceHolds ==
    letter # NoLetter /\ letter.way = "webmail" /\ letter.steady
      /\ Cardinality(letter.accepted) = 1 =>
        /\ letter.phase # "held"
        /\ letter.phase = "queued" /\ LookupAt("load") /\ LayersDone => Admissible

\* "PostfixSubmissionRecipient expands and evaluates one authenticated SMTP RCPT
\* request against authoritative SQL state" (daemon.go:238): a recipient that it
\* accepts alone is not held later while nothing changes.
RcptIsExpanded ==
    letter # NoLetter /\ letter.way = "smtp" /\ letter.steady
      /\ Cardinality(letter.accepted) = 1 =>
        letter.phase # "held"
=============================================================================
