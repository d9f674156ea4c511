------------------------------- MODULE Authz --------------------------------
(***************************************************************************)
(* The static authorizer (authz).  An action is a pair of its family and   *)
(* its verb, "mailbox:provision" being <<"mailbox", "provision">>; a       *)
(* resource is a record of its type, its ID and the domain of its ID.      *)
(***************************************************************************)

CONSTANT Mappings   \* role mappings: group, role, domain ("*" for all), verified

\* The roles a subject has: those bound to its identity, and those that a
\* verified mapping gives to one of its groups.
rolesFor(actor) ==
    actor.roles \cup
    {[role |-> m.role, domain |-> m.domain] :
        m \in {m \in Mappings : m.verified /\ m.group \in actor.groups}}

HasRole(actor, role, domain) == [role |-> role, domain |-> domain] \in rolesFor(actor)

explainOIDC(actor, act, r) ==
    \/ /\ actor.mailbox = r.id
       /\ act \in {<<"webmail", "use">>} \cup
                  ({"mailbox"} \X {"app_password.create", "app_password.read", "app_password.revoke"})
    \/ HasRole(actor, "global_admin", "*")
    \/ act[1] \in {"status", "doctor"}
    \/ /\ HasRole(actor, "domain_manager", r.domain)
       /\ act[1] \in {"domain", "mailbox", "alias"}
    \/ /\ HasRole(actor, "scoped_domain_access", r.domain)
       /\ act \in {"domain", "mailbox", "alias"} \X {"read"}

\* A scope names an action, alone or for one resource.
Decide(actor, act, r) ==
    \/ actor.type = "local_admin"
    \/ actor.type = "break_glass" /\ act[1] \in {"bootstrap", "recovery"}
    \/ actor.type = "api_token" /\ {<<act, "any">>, <<act, r.id>>} \cap actor.scopes # {}
    \/ /\ actor.type = "plugin_service"
       /\ act[1] = "plugin"
       /\ act[2] \notin {"grant", "policy"}
    \/ actor.type = "system" /\ act[1] \in {"system", "notification"}
    \/ actor.type = "scim_client" /\ (act[1] = "scim" \/ act = <<"mailbox", "provision">>)
    \/ actor.type = "oidc_subject" /\ explainOIDC(actor, act, r)
=============================================================================
