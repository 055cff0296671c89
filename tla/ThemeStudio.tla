---------------------------- MODULE ThemeStudio ----------------------------
(***************************************************************************)
(* The theme editor (theme_studio.rs, theme/gradient.rs): every edit       *)
(* applies live, ends in the normalisation of the whole theme and is       *)
(* handed to the settings in the same frame.  The gradient's four pegs are *)
(* f32 positions that each edit bounds by its neighbours, and that the     *)
(* normalisation sorts and spaces again; the rounding of f32 is what the   *)
(* two have to agree on.  A release build aborts on a panic.               *)
(* A position is an integer in units of 2^-30; selecting a peg is free, so *)
(* that a key may move any.  Colours other than the pegs', with the angle, *)
(* are the scheme; every other setting is the layout.                      *)
(***************************************************************************)
EXTENDS Integers, FiniteSets, Sequences, SequencesExt

CONSTANTS StudioPercents,   \* whole percents that positions are entered or imported as
          StudioNames,      \* the names valid_name accepts
          MaxSaved,         \* MAX_SAVED, of themes and of remembered rolls
          MaxThemeEdits     \* bound: edits, other than those that return to something kept

ASSUME StudioAssumption ==
  /\ StudioPercents \subseteq 1..100
  /\ MaxSaved \in Nat \ {0} /\ MaxThemeEdits \in Nat

VARIABLES theme,      \* TrontopApp.theme
          sessionStart,   \* Studio.baseline, what Revert session returns to
          rolls,      \* Studio.rolls: the palettes before the last rolls
          library,    \* Studio.saved
          revision,   \* Studio.revision
          known,      \* preferences_theme and preferences_library_revision
          stored,     \* the theme and library last handed to the settings, as text
          editorOpen, \* show_theme_editor
          canEdit,    \* Preferences::can_edit: the settings were read
          running,    \* FALSE once a panic has aborted the process
          openedWith, \* history: the theme shown when the editor could first edit it
          edits

studioVars == <<theme, sessionStart, rolls, library, revision, known, stored, editorOpen, canEdit,
                running, openedWith, edits>>

Pegs == 1..4
NoTheme == <<>>

(***************************************************************************)
(* f32 arithmetic: the neighbouring values of a number below 2 lie ulp     *)
(* apart, and a result is the nearest of them, the even one of two.        *)
(***************************************************************************)
One == 2^30
Hundredth == 10737418      \* 0.01
FiveHundredths == 53687092 \* 0.05

Ulp(n) == IF n < 2^24 THEN 1 ELSE CHOOSE ulp \in {2, 4, 8, 16, 32, 64, 128} : n \div (2^23 * ulp) = 1

(* The f32 nearest to n and hundredths/100. *)
Nearest(n, hundredths) ==
  LET ulp == Ulp(n)
      over == 100 * (n % ulp) + hundredths
      up == over > 50 * ulp \/ (over = 50 * ulp /\ ((n \div ulp) % 2) = 1)
  IN  (n - (n % ulp)) + IF up THEN ulp ELSE 0

Plus(a, b) == Nearest(a + b, 0)
Minus(a, b) == IF a < b THEN 0 ELSE Nearest(a - b, 0)   \* every use is clamped from 0 on
Percent(k) == Nearest(k * Hundredth + (k * 24) \div 100, (k * 24) % 100)

(* gradient.rs: i as f32 / 3.0 of the default, and the highest place of a peg. *)
Third == <<0, 357913952, 715827904, One>>
Ceiling == [i \in Pegs |-> Minus(One, Nearest((4 - i) * Hundredth, 0))]

Clamped(n, low, high) == IF n < low THEN low ELSE IF n > high THEN high ELSE n

(***************************************************************************)
(* gradient::normalize: sort by position, earlier pegs first, and place    *)
(* each at least 0.01 after the one before it.                             *)
(***************************************************************************)
PlacedTouching(stops) ==      \* mutant: each at or after the one before it
  LET at[i \in Pegs] == Clamped(stops[i].at, IF i = 1 THEN 0 ELSE at[i - 1], Ceiling[i])
  IN  [i \in Pegs |-> [stops[i] EXCEPT !.at = at[i]]]

Placed(stops) ==
  LET at[i \in Pegs] ==
        Clamped(stops[i].at, IF i = 1 THEN 0 ELSE Plus(at[i - 1], Hundredth), Ceiling[i])
  IN  [i \in Pegs |-> [stops[i] EXCEPT !.at = at[i]]]

ComesBefore(stops, i, j) == stops[i].at < stops[j].at \/ (stops[i].at = stops[j].at /\ i < j)
ByPosition(stops) ==
  [k \in Pegs |-> stops[CHOOSE i \in Pegs : Cardinality({j \in Pegs : ComesBefore(stops, j, i)}) = k - 1]]

Normalized(t) == [t EXCEPT !.stops = Placed(ByPosition(@))]

(* Presets, and a roll's colours, in the order of the pegs. *)
Default == [stops |-> [i \in Pegs |-> [at |-> Third[i], paint |-> <<0, i>>]],
            scheme |-> 0, layout |-> 0]
Painted(t, paints) == [i \in Pegs |-> [t.stops[i] EXCEPT !.paint = paints[i]]]

(***************************************************************************)
(* What a whole theme may become in one frame of the editor.               *)
(***************************************************************************)
Lowest(t, i) == IF i = 1 THEN 0 ELSE Plus(t.stops[i - 1].at, Hundredth)
Highest(t, i) == IF i = 4 THEN One ELSE Minus(t.stops[i + 1].at, Hundredth)
Movable(t, i) == Lowest(t, i) <= Highest(t, i)      \* f32::clamp panics unless min <= max

MoveStop(t, i, at) == [t EXCEPT !.stops[i].at = Clamped(at, Lowest(t, i), Highest(t, i))]

(* A drag or the percent field, and the arrow keys. *)
Targets(t, i) == {Percent(k) : k \in StudioPercents}
  \cup UNION {{Minus(t.stops[i].at, step), Plus(t.stops[i].at, step)} :
              step \in {Hundredth, FiveHundredths}}

ReverseGradient(t) ==
  [t EXCEPT !.stops = [i \in Pegs |-> [t.stops[5 - i] EXCEPT !.at = Minus(One, @)]]]
EvenlySpace(t) == [t EXCEPT !.stops = [i \in Pegs |-> [t.stops[i] EXCEPT !.at = Third[i]]]]

(* ThemeSettings::encode and decode; a library is accepted whole or not at all. *)
Encoded(t) == Normalized(t)
Decoded(text) == Normalized(text)
EncodeLibrary(rows) == [i \in DOMAIN rows |-> [rows[i] EXCEPT !.theme = Encoded(@)]]
Acceptable(text) == /\ Len(text) <= MaxSaved
                    /\ \A i, j \in DOMAIN text : i # j => text[i].name # text[j].name
LoadLibrary(text) == [i \in DOMAIN text |-> [text[i] EXCEPT !.theme = Decoded(@)]]

-----------------------------------------------------------------------------

StudioInit ==
  /\ theme = Default /\ sessionStart = NoTheme /\ rolls = <<>> /\ library = <<>>
  /\ revision = 0 /\ known = [theme |-> Default, revision |-> 0]
  /\ stored = [theme |-> Default, library |-> <<>>]
  /\ editorOpen = FALSE /\ canEdit = FALSE /\ running = TRUE
  /\ openedWith = NoTheme /\ edits = 0

(* Studio::show: the baseline is taken when the editor may first edit. *)
BaselineOf(open, editable, shown) ==
  IF ~open \/ ~editable THEN NoTheme ELSE IF sessionStart = NoTheme THEN shown ELSE sessionStart

(* The end of an editable frame: what differs from what is known is captured. *)
Capture(t, rows, rev) ==
  IF t # known.theme \/ rev # known.revision
  THEN /\ stored' = [theme |-> Encoded(t), library |-> EncodeLibrary(rows)]
       /\ known' = [theme |-> t, revision |-> rev]
  ELSE UNCHANGED <<stored, known>>

OpenEditor ==
  /\ running /\ ~editorOpen
  /\ editorOpen' = TRUE /\ openedWith' = IF canEdit THEN theme ELSE NoTheme
  /\ sessionStart' = BaselineOf(TRUE, canEdit, theme)
  /\ UNCHANGED <<theme, rolls, library, revision, known, stored, canEdit, running, edits>>

CloseEditor ==
  /\ running /\ editorOpen
  /\ editorOpen' = FALSE /\ sessionStart' = NoTheme /\ openedWith' = NoTheme
  /\ UNCHANGED <<theme, rolls, library, revision, known, stored, canEdit, running, edits>>

(* TrontopApp::poll_preferences, and the rest of the frame. *)
LoadSettings ==
  /\ running /\ ~canEdit
  /\ theme' = Decoded(stored.theme)
  /\ IF Acceptable(stored.library)
     THEN library' = LoadLibrary(stored.library) /\ revision' = revision + 1
     ELSE UNCHANGED <<library, revision>>
  /\ known' = [theme |-> theme', revision |-> revision']
  /\ canEdit' = TRUE /\ sessionStart' = BaselineOf(editorOpen, TRUE, theme')
  /\ openedWith' = IF editorOpen THEN theme' ELSE NoTheme
  /\ UNCHANGED <<rolls, stored, editorOpen, running, edits>>

(* One edit in a frame of the open editor: a theme, a library and rolls to remember. *)
Edit(t, rows, rev, palettes) ==
  /\ running /\ editorOpen /\ canEdit
  /\ theme' = Normalized(t) /\ library' = rows /\ revision' = rev /\ rolls' = palettes
  /\ Capture(theme', rows, rev)
  /\ sessionStart' = BaselineOf(TRUE, TRUE, theme)
  /\ UNCHANGED <<editorOpen, canEdit, running, openedWith>>

NewEdit == edits < MaxThemeEdits /\ edits' = edits + 1
EditTheme(t) == Edit(t, library, revision, rolls)

MovePeg == \E i \in Pegs : \E at \in Targets(theme, i) :
  Movable(theme, i) /\ NewEdit /\ EditTheme(MoveStop(theme, i, at))

(* f32::clamp with min > max: the process aborts. *)
MovePanics ==
  /\ running /\ editorOpen /\ canEdit
  /\ \E i \in Pegs : ~Movable(theme, i)
  /\ running' = FALSE
  /\ UNCHANGED <<theme, sessionStart, rolls, library, revision, known, stored, editorOpen, canEdit,
                 openedWith, edits>>

ReversePegs == NewEdit /\ EditTheme(ReverseGradient(theme))
EvenSpacing == NewEdit /\ EditTheme(EvenlySpace(theme))

(* A complete theme with any positions and the default look; what is beyond an end is at it. *)
Import == \E at \in [Pegs -> StudioPercents] :
  /\ NewEdit
  /\ EditTheme(Decoded([Default EXCEPT !.stops = [i \in Pegs |-> [@[i] EXCEPT !.at = Percent(at[i])]]]))

Randomize ==
  /\ NewEdit
  /\ LET roll == edits + 1
         palette == [scheme |-> theme.scheme, paints |-> [i \in Pegs |-> theme.stops[i].paint]]
     IN  Edit([theme EXCEPT !.scheme = roll, !.stops = Painted(theme, [i \in Pegs |-> <<roll, i>>])],
              library, revision, Append(IF Len(rolls) = MaxSaved THEN Tail(rolls) ELSE rolls, palette))

UndoRoll ==
  /\ rolls # <<>> /\ UNCHANGED edits
  /\ Edit([theme EXCEPT !.scheme = Last(rolls).scheme, !.stops = Painted(theme, Last(rolls).paints)],
          library, revision, Front(rolls))

(* Any slider, box or choice of the other settings. *)
ChangeLayout == NewEdit /\ EditTheme([theme EXCEPT !.layout = 1 - @])
(* Reset to TrontStack, or a preset: complete themes with evenly spaced pegs. *)
ResetTheme == NewEdit /\ EditTheme(Default)

RevertSession ==
  /\ theme # sessionStart /\ UNCHANGED edits
  /\ EditTheme(IF sessionStart = NoTheme THEN Default ELSE sessionStart)

SaveNamed == \E name \in StudioNames :
  LET own == {i \in DOMAIN library : library[i].name = name}
      row == [name |-> name, theme |-> Normalized(theme)]
  IN  /\ NewEdit
      /\ own # {} \/ Len(library) < MaxSaved      \* the button is enabled
      /\ Edit(theme, IF own # {} THEN [i \in DOMAIN library |-> IF i \in own THEN row ELSE library[i]]
                     ELSE Append(library, row),
              revision + 1, rolls)

DeleteSaved == \E i \in DOMAIN library :
  UNCHANGED edits /\ Edit(theme, RemoveAt(library, i), revision + 1, rolls)

LoadSaved == \E i \in DOMAIN library :
  UNCHANGED edits /\ EditTheme(library[i].theme)

(* The program starts again with the settings that were stored. *)
StartAgain ==
  /\ canEdit
  /\ theme' = Default /\ sessionStart' = NoTheme /\ rolls' = <<>> /\ library' = <<>> /\ revision' = 0
  /\ known' = [theme |-> Default, revision |-> 0]
  /\ editorOpen' = FALSE /\ canEdit' = FALSE /\ running' = TRUE /\ openedWith' = NoTheme
  /\ UNCHANGED <<stored, edits>>

StudioNext ==
  \/ OpenEditor \/ CloseEditor \/ LoadSettings \/ StartAgain
  \/ MovePeg \/ MovePanics \/ ReversePegs \/ EvenSpacing \/ Import
  \/ Randomize \/ UndoRoll \/ ChangeLayout \/ ResetTheme \/ RevertSession
  \/ SaveNamed \/ DeleteSaved \/ LoadSaved

StudioSpec == StudioInit /\ [][StudioNext]_studioVars

-----------------------------------------------------------------------------

PegsApart == \A i \in Pegs :
  theme.stops[i].at \in (IF i = 1 THEN 0 ELSE Plus(theme.stops[i - 1].at, Hundredth))..Ceiling[i]

StoredIsShown == canEdit =>
  stored = [theme |-> theme, library |-> library]

(* What is stored is accepted and is read back as it is, for the next start. *)
StoredReadsBack == /\ Acceptable(stored.library)
                   /\ LoadLibrary(stored.library) = stored.library
                   /\ Decoded(stored.theme) = stored.theme

RevertsToOpening == sessionStart = openedWith

(* After any frame of the editor the pegs are in order and 0.01 apart (as   *)
(* f32 adds it), although edits, imports and the normalisation round        *)
(* differently (theme/gradient.rs:19); what the settings were last handed   *)
(* is the theme and library shown, and is accepted whole and read back      *)
(* unchanged by the next start (theme_studio.rs:543-575); and Revert        *)
(* session returns to the theme the editor was opened on, never to the      *)
(* defaults shown before the settings were read (theme_studio.rs:52).       *)
ThemeIsKept == PegsApart /\ StoredIsShown /\ StoredReadsBack /\ RevertsToOpening

(* Any position may be asked of any peg: the move is answered within the    *)
(* neighbours' limits and never ends the process (theme/gradient.rs:60).    *)
MovesAreAnswered == running
=============================================================================
