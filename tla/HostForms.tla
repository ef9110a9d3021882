----------------------------- MODULE HostForms -----------------------------
(***************************************************************************)
(* The host settings of the client: the list joined with the health        *)
(* report, the card of one host with its probe and its fingerprint prompt, *)
(* and the form that adds or edits a host.  Each operator is one event of  *)
(* the card; ClientChecks strings them together.                           *)
(*                                                                         *)
(* A text is a string of which only " ", which is blank, is not its own    *)
(* trimmed form; the text of a port is the number it reads as, 0 if none.  *)
(* A value that may be null is the set of it.                              *)
(***************************************************************************)
EXTENDS Naturals

Trim(text) == IF text = " " THEN "" ELSE text
Only(S, default) == IF S = {} THEN default ELSE CHOOSE x \in S : TRUE

DefaultSshPort == 22

-----------------------------------------------------------------------------
(* use-hosts.ts.  health: a function from hosts to whether they answered,  *)
(* empty until the first report.                                           *)

HostsWithStatus(hosts, health) ==
    [h \in DOMAIN hosts |->
        LET reachable == h \in DOMAIN health /\ health[h]
        IN [enabled |-> hosts[h].enabled, reachable |-> reachable,
            status |-> CASE ~hosts[h].enabled -> "DISABLED"
                         [] hosts[h].enabled /\ reachable -> "ONLINE"
                         [] OTHER -> "OFFLINE"]]
CurrentHost(hosts, h) == {hosts[g] : g \in DOMAIN hosts \cap {h}}

-----------------------------------------------------------------------------
(* The form.  host: {} when it adds one.                                   *)

DraftFrom(host) ==
    LET ssh == UNION {x.ssh : x \in host}
    IN [label |-> Only({x.label : x \in host}, ""), host |-> Only({s.host : s \in ssh}, ""),
        port |-> Only({s.port : s \in ssh}, DefaultSshPort),
        user |-> Only({s.user : s \in ssh}, ""),
        keyPath |-> Only(UNION {s.keyPath : s \in ssh}, "")]

\* The dialog is mounted, closed, with its card.
Mounted(host) == [open |-> FALSE, draft |-> DraftFrom(host), mutation |-> "idle"]

\* The pencil and "Add host" set the prop; the dialog's own onOpenChange,
\* which would take the draft afresh, is called for its own closing alone.
Opened(form) == [form EXCEPT !.open = TRUE]
Closed(form) == [form EXCEPT !.open = FALSE]
Typed(form, field, text) == [form EXCEPT !.draft[field] = text]

IsComplete(draft) == \A field \in {"label", "host", "user"} : Trim(draft[field]) # ""
MaySubmit(form) == form.open /\ IsComplete(form.draft) /\ form.mutation # "pending"

\* onSubmit: what is sent, of the whole draft.
Request(draft) ==
    [label |-> Trim(draft.label),
     ssh |-> [host |-> Trim(draft.host),
              port |-> IF draft.port = 0 THEN DefaultSshPort ELSE draft.port,
              user |-> Trim(draft.user),
              keyPath |-> {k \in {Trim(draft.keyPath)} : k # ""}]]
Submitted(form) == [form EXCEPT !.mutation = "pending"]
Settled(form, succeeded) ==
    IF succeeded THEN [form EXCEPT !.mutation = "idle", !.open = FALSE]
    ELSE [form EXCEPT !.mutation = "failed"]

-----------------------------------------------------------------------------
(* The card.  probe: the result of the last test, which the mutation keeps *)
(* until the next.                                                         *)

\* ProbeResult and FingerprintPrompt: the key to be confirmed, if any.
Prompted(probe) ==
    UNION {p.fingerprint : p \in {p \in probe : p.outcome = "FINGERPRINT_UNVERIFIED"}}
IsRotation(host, probe) == Prompted(probe) # {} /\ host.fingerprint # {}
=============================================================================
