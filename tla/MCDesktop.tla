------------------------------ MODULE MCDesktop ------------------------------
(* What keeps the program reachable and its choices safe: the window and its *)
(* tray, and the preferences of one instance.  One component                 *)
(* runs in a behaviour, chosen at the start; the others rest.                *)
EXTENDS TrayWindow, Preferences

VARIABLE part

desktopVars == <<part, windowVars, vars>>

Only(p, A) == part = p /\ A /\ UNCHANGED part
              /\ (p = "window" \/ UNCHANGED windowVars)
              /\ (p = "preferences" \/ UNCHANGED vars)

DesktopInit ==
  /\ part \in {"window", "preferences"} /\ WindowInit /\ Init
  /\ part # "preferences" => file = None

DesktopNext == \/ Only("window", WindowNext)
               \/ Only("preferences", Next)

DesktopFairness ==
  /\ WF_desktopVars(Only("window", FrameStep))
  /\ WF_desktopVars(Only("window", TrayStep))
  /\ WF_desktopVars(Only("window", SamplerStep))
  /\ \A i \in Instances : /\ WF_desktopVars(Only("preferences", Frame(i)))
                          /\ WF_desktopVars(Only("preferences", Worker(i)))
                          /\ WF_desktopVars(Only("preferences", DebouncePasses(i)))
                          /\ WF_desktopVars(Only("preferences", Drop(i)))

DesktopSpec == DesktopInit /\ [][DesktopNext]_desktopVars /\ DesktopFairness
=============================================================================
