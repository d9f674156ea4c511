----------------------------- MODULE MailLookup -----------------------------
(***************************************************************************)
(* What Postfix, Dovecot and rspamd are told of the directory (daemon),    *)
(* and what the mail front is told of a connection (frontauth).  A         *)
(* directory d has the functions domains, mailboxes, aliases and           *)
(* verifiers, each defined on the names it knows, and a flag unavailable.  *)
(***************************************************************************)
EXTENDS Naturals, FiniteSets

CONSTANT MaxVerifiers

\* An entry that is there is accepted when it is enabled.
Lookup(d, table, name) ==
    CASE d.unavailable -> "defer"
      [] ~d.unavailable /\ name \notin DOMAIN table -> "not_found"
      [] OTHER -> IF table[name].enabled THEN "ok" ELSE "reject"

PostfixDomain(d, name) == Lookup(d, d.domains, name)

PostfixMailbox(d, a) == Lookup(d, d.mailboxes, a)

PostfixAlias(d, a) == Lookup(d, d.aliases, a)

\* A mailbox hides an alias of the same address, even when it is disabled.
PostfixRecipient(d, a) ==
    IF a \in DOMAIN d.mailboxes THEN PostfixMailbox(d, a) ELSE PostfixAlias(d, a)

PostfixSenderLogin(d, user, from) ==
    IF user # from /\ ~d.unavailable THEN "reject" ELSE PostfixMailbox(d, user)

PostfixSenderPolicy(d, from) == PostfixMailbox(d, from)

\* The mailbox's own password, or one of its app passwords unless there are
\* too many of them.
DovecotPassdb(d, a, secret) ==
    LET found == PostfixMailbox(d, a)
        held == IF a \in DOMAIN d.verifiers THEN d.verifiers[a] ELSE {}
    IN  CASE found # "ok" -> found
          [] found = "ok" /\ d.mailboxes[a].verifier = secret -> "ok"
          [] OTHER -> IF Cardinality(held) > MaxVerifiers THEN "error"
                      ELSE IF secret \in held THEN "ok" ELSE "reject"

DovecotUserdb(d, a) == PostfixMailbox(d, a)

DovecotQuota(d, a) == PostfixMailbox(d, a)

DovecotSieve(d, a) == DovecotUserdb(d, a)

RspamdLocalDomains(d) == {n \in DOMAIN d.domains : d.domains[n].enabled}

\* The mail front: a recipient for a connection without a login, a login
\* for the others.  A temporary answer is not a refusal.
Front(decision) ==
    CASE decision = "ok" -> "accepted"
      [] decision \in {"defer", "error"} -> "temporary"
      [] OTHER -> "refused"

FrontRecipient(d, a) == Front(PostfixRecipient(d, a))

FrontLogin(d, a, secret) == Front(DovecotPassdb(d, a, secret))

\* The policy service, for a recipient of a connection without a login: mail
\* for a domain that is not hosted is left to the relay policy.
handlePostfixPolicy(d, name, a) ==
    LET hosted == PostfixDomain(d, name)
        decision == CASE hosted = "not_found" -> "ok"
                      [] hosted = "ok" -> PostfixRecipient(d, a)
                      [] OTHER -> hosted
    IN  CASE decision = "ok" -> "dunno"
          [] decision = "not_found" -> "unknown"
          [] decision = "defer" -> "retry"
          [] OTHER -> "forbidden"
=============================================================================
