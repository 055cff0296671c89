------------------------------- MODULE MCPages -------------------------------
(* The two pages that change the system through a worker: services and      *)
(* startup entries.  One of them runs in a behaviour, chosen at the start;  *)
(* the other rests.  Only their names tell the services apart, and only     *)
(* their names the registrations: the first one is any of them.  Other      *)
(* programs and commands give an entry the other approvals.                 *)
EXTENDS ServiceView, StartupPage, TLC

CONSTANT MaxActivity  \* bound: see WithinActivity

VARIABLE part

pagesVars == <<part, allVars, startupVars>>

Only(p, A) == part = p /\ A /\ UNCHANGED part
              /\ (p = "services" \/ UNCHANGED allVars)
              /\ (p = "startup" \/ UNCHANGED startupVars)

PagesInit ==
  /\ part \in {"services", "startup"} /\ ViewInit /\ PageInit
  /\ \A key \in Keys : registration[key] = CHOOSE r \in Registrations : TRUE
  /\ \A key \in Keys : approval[key] = IF key \in files THEN "Missing" ELSE "Disabled"
  /\ part # "startup" => files = {}

\* Bound: commands accepted and changes by other programs together; either kind may be
\* the one that comes twice.
WithinActivity == accepted' + edits' <= MaxActivity

PagesNext == Only("services", ViewNext) \/ Only("startup", PageNext /\ WithinActivity)

PagesSpec == PagesInit /\ [][PagesNext]_pagesVars

ServiceSymmetry == Permutations(Services)

\* Bound: whether a further command may be accepted.
MoreCommands == accepted < MaxChanges /\ accepted + edits < MaxActivity

\* What an inventory says of its age: `live' is nowhere read without it.
Aged(health) == [health EXCEPT !.live = @ /\ now - health.success <= MaxAge]

\* All but what no property and no other variable depends on:
\*  - `outdated', which only InventoryAfterCommand looks at, and the refresh requests,
\*    since the cadence starts reads without one;
\*  - the inventory worker of a Services page that takes no more snapshots;
\*  - the reviewed request once it cannot be accepted, and the records and the history
\*    of an entry once no worker can be asked for a change.
PagesView == IF part = "services"
             THEN <<vars, IF stop THEN {} ELSE <<inventory, Aged(published)>>, Aged(snapshot),
                    pageVars, announced>>
             ELSE <<controlVars, read, listedSource, shownSource,
                    IF MoreCommands THEN pending ELSE Nothing,
                    IF dropped \/ worker.at = "dead" THEN {} ELSE <<observationVars, since>>>>
=============================================================================
