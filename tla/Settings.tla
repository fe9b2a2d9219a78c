------------------------------ MODULE Settings ------------------------------
(***************************************************************************)
(* The reader's settings: the form of SettingsScreen, the key-by-key save  *)
(* of LocalSettingsStore, and what LibraryScreen and AidokuApp make of     *)
(* them.                                                                   *)
(*                                                                         *)
(* A save writes one key, waits for the platform, and writes the next.     *)
(* Meanwhile the reader may go back, open the settings anew and save       *)
(* again.  A screen that was popped stays mounted until its transition has *)
(* ended, and a save that completes pops whatever route is then on top.    *)
(***************************************************************************)
EXTENDS Integers, Sequences

CONSTANTS
    Languages,   \* the languages books are written in or for
    Catalogs,    \* the sets of language pairs the API may be serving
    Visits,      \* the visits to the settings
    None,        \* null
    MaxEdits,    \* bounds how often the reader changes a setting ...
    MaxSaves     \* ... and how often the settings are saved

Pair == [target : Languages, native : Languages]
Themes == {"system", "dark"}

(* The display name and the reading level, which only the form reads, are  *)
(* left out.                                                               *)
Keys == <<"native", "study", "active", "theme">>

Codes == Languages \cup {None}
Record == [native : Codes, study : Seq(Languages), active : Codes, theme : Themes]

ASSUME CatalogsAssumption == Catalogs \subseteq SUBSET Pair
ASSUME NoneAssumption == None \notin Languages /\ None \notin Record
ASSUME BoundsAssumption == MaxEdits \in Nat /\ MaxSaves \in Nat

Blank == [native |-> None, study |-> <<>>, active |-> None, theme |-> "system"]

VARIABLES
    catalog,    \* the pairs of the published books
    memory,     \* what the app reads of shared_preferences
    device,     \* what survives the app
    unwritten,  \* the writes the platform has yet to perform
    screen,     \* the route of each visit
    form,       \* what its form shows
    busy,       \* _saving: its Save button is disabled
    saving,     \* the settings it is saving
    edits,      \* bound: changes made in a form ...
    saves,      \* ... and saves so far
    home,       \* the home route has not been popped
    library,    \* what LibraryScreen shows
    theme,      \* the theme the app is drawn in
    last,       \* history: the settings last saved by the reader
    hurried,    \* history: a screen was left while it was saving
    torn        \* history: a save was cut off by a failure or the app's end

prefs == <<memory, device, unwritten>>
visit == <<form, busy>>
history == <<last, hurried, torn>>
rest == <<catalog, edits, saves, history>>
vars == <<prefs, screen, visit, saving, home, library, theme, rest>>

Enrolled(s) == {s.study[i] : i \in DOMAIN s.study}

(* availableLanguagePairs and resolveActiveSettings.                       *)
Untouched(s) == s.native = None /\ s.active = None

Resolve(s, pairs) ==
    IF Untouched(s) /\ \E only \in Pair : pairs = {only}
    THEN LET only == CHOOSE q \in pairs : TRUE
         IN  [native |-> only.native, active |-> only.target]
    ELSE [native |-> s.native, active |-> s.active]

LoadingLibrary == None
Shown(s) == [native |-> s.native, active |-> s.active]

Init ==
    /\ catalog \in Catalogs
    /\ memory = Blank /\ device = Blank /\ unwritten = <<>>
    /\ screen = [v \in Visits |-> "closed"]
    /\ form = [v \in Visits |-> Blank]
    /\ busy = [v \in Visits |-> FALSE]
    /\ edits = 0 /\ saves = 0
    /\ saving = [v \in Visits |-> None]
    /\ home = TRUE
    /\ library = LoadingLibrary
    /\ theme = "system"
    /\ last = Blank /\ hurried = FALSE /\ torn = FALSE

Open == {v \in Visits : screen[v] \in {"loading", "form"}}
InSave(v) == saving[v] # None
AllSaved == \A v \in Visits : ~InSave(v)

-----------------------------------------------------------------------------
(* LibraryScreen.                                                          *)

(* _load: the settings are read when the books have arrived.  A load that  *)
(* fails shows no books, as one that has not ended.                        *)
LibraryLoads ==
    /\ library = LoadingLibrary
    /\ library' = Shown(Resolve(memory, catalog))
    /\ UNCHANGED <<prefs, screen, visit, saving, home, theme, rest>>

(* _openSettings pushes the screen, whose _load reads the settings at      *)
(* once and asks for the books.                                            *)
OpenSettings(v) ==
    /\ home /\ Open = {} /\ screen[v] = "closed" /\ ~InSave(v)
    /\ screen' = [screen EXCEPT ![v] = "loading"]
    /\ form' = [form EXCEPT ![v] = memory]
    /\ UNCHANGED <<prefs, busy, saving, home, library, theme, rest>>

(* Mutant of Reload: the library goes on showing what it loaded.           *)
KeepLibrary == UNCHANGED library

(* _openSettings after the pop.                                            *)
Reload == library' = LoadingLibrary

-----------------------------------------------------------------------------
(* SettingsScreen and its form.                                            *)

(* _load ends.  If it fails, nothing can be done but to go back, as before. *)
BooksArrive(v) ==
    /\ screen[v] = "loading"
    /\ screen' = [screen EXCEPT ![v] = "form"]
    /\ UNCHANGED <<prefs, visit, saving, home, library, theme, rest>>

Edit(v, settings) ==
    /\ screen[v] = "form"
    /\ edits < MaxEdits /\ edits' = edits + 1
    /\ form' = [form EXCEPT ![v] = settings]
    /\ UNCHANGED <<prefs, screen, busy, saving, home, library, theme,
                   catalog, saves, history>>

SetNativeLanguage(v) == \E pair \in catalog :
    Edit(v, [form[v] EXCEPT !.native = pair.native, !.study = <<>>, !.active = None])

StudyLanguageOptions(v) == {q.target : q \in {r \in catalog : r.native = form[v].native}}

(* The list has a language once, for the form keeps a set.                 *)
Without(list, code) ==
    LET at == CHOOSE i \in DOMAIN list : list[i] = code
    IN  [i \in 1..(Len(list) - 1) |-> IF i < at THEN list[i] ELSE list[i + 1]]

Enroll(v) == \E code \in StudyLanguageOptions(v) \ Enrolled(form[v]) :
    Edit(v, [form[v] EXCEPT !.study = Append(@, code),
                            !.active = IF @ = None THEN code ELSE @])

(* Mutant of Unenroll: the active language stays.                          *)
UnenrollOnly(v) == \E code \in StudyLanguageOptions(v) \cap Enrolled(form[v]) :
    Edit(v, [form[v] EXCEPT !.study = Without(@, code)])

Unenroll(v) == \E code \in StudyLanguageOptions(v) \cap Enrolled(form[v]) :
    LET left == Without(form[v].study, code)
    IN  Edit(v, [form[v] EXCEPT
            !.study = left,
            !.active = IF @ # code THEN @ ELSE IF left = <<>> THEN None ELSE Head(left)])

SetActive(v) ==
    \E code \in (StudyLanguageOptions(v) \cap Enrolled(form[v])) \ {form[v].active} :
        Edit(v, [form[v] EXCEPT !.active = code])

SetTheme(v) == \E mode \in Themes \ {form[v].theme} : Edit(v, [form[v] EXCEPT !.theme = mode])

-----------------------------------------------------------------------------
(* A save.                                                                 *)

(* Mutant of WriteKey: null removes nothing.                               *)
WriteKeySet(v, k, s, queue) ==
    IF s[Keys[k]] = None
    THEN unwritten' = Append(queue, [visit |-> v, key |-> k, value |-> memory[Keys[k]]])
         /\ UNCHANGED memory
    ELSE /\ memory' = [memory EXCEPT ![Keys[k]] = s[Keys[k]]]
         /\ unwritten' = Append(queue, [visit |-> v, key |-> k, value |-> s[Keys[k]]])

(* One setString, setStringList or remove: in memory at once, behind       *)
(* queue on the way to the device.                                         *)
WriteKey(v, k, s, queue) ==
    /\ memory' = [memory EXCEPT ![Keys[k]] = s[Keys[k]]]
    /\ unwritten' = Append(queue, [visit |-> v, key |-> k, value |-> s[Keys[k]]])

Save(v) ==
    /\ screen[v] = "form" /\ ~busy[v]
    /\ saves < MaxSaves /\ saves' = saves + 1
    /\ busy' = [busy EXCEPT ![v] = TRUE]
    /\ saving' = [saving EXCEPT ![v] = form[v]]
    /\ WriteKey(v, 1, form[v], unwritten)
    /\ last' = form[v]
    /\ UNCHANGED <<catalog, edits, device, screen, form, home, library, theme, hurried, torn>>

(* A route is popped: what its form shows is never seen again, and         *)
(* _openSettings goes on.                                                  *)
Pop(v) ==
    /\ screen' = [screen EXCEPT ![v] = "leaving"]
    /\ form' = [form EXCEPT ![v] = Blank]
    /\ busy' = [busy EXCEPT ![v] = FALSE]
    /\ Reload

(* Navigator.pop: the route on top, be it the home route.                  *)
PopTop ==
    \/ \E v \in Open : Pop(v) /\ UNCHANGED home
    \/ Open = {} /\ home' = FALSE /\ UNCHANGED <<screen, visit, library>>

Saved(v) == saving' = [saving EXCEPT ![v] = None]

(* Mutant of SaveReturns: the form pops as well.                           *)
SaveReturnsTwice(v) ==
    /\ Saved(v)
    /\ \E u \in Open : Pop(u)
    /\ home' = FALSE
    /\ theme' = saving[v].theme

(* saveSettings has returned: onThemeModeChanged, and a pop if the screen  *)
(* is still mounted.                                                       *)
SaveReturns(v) ==
    /\ Saved(v)
    /\ theme' = saving[v].theme
    /\ \/ screen[v] = "closed" /\ UNCHANGED <<screen, visit, home, library>>
       \/ screen[v] # "closed" /\ PopTop

Performed(w) == device' = [device EXCEPT ![Keys[w.key]] = w.value]

(* The platform has performed a write, and saveSettings goes on.           *)
PlatformWrites ==
    /\ unwritten # <<>>
    /\ LET w == Head(unwritten)
       IN  /\ Performed(w)
           /\ IF w.key < Len(Keys)
              THEN /\ WriteKey(w.visit, w.key + 1, saving[w.visit], Tail(unwritten))
                   /\ UNCHANGED <<saving, theme, screen, visit, home, library>>
              ELSE /\ unwritten' = Tail(unwritten)
                   /\ UNCHANGED memory
                   /\ SaveReturns(w.visit)
    /\ UNCHANGED rest

(* The write throws, and so do saveSettings and both _saves: nothing after *)
(* the awaits is done.                                                     *)
PlatformWriteFails ==
    /\ unwritten # <<>>
    /\ unwritten' = Tail(unwritten)
    /\ saving' = [saving EXCEPT ![Head(unwritten).visit] = None]
    /\ torn' = TRUE
    /\ UNCHANGED <<catalog, edits, memory, device, screen, visit, saves, home, library,
                   theme, last, hurried>>

-----------------------------------------------------------------------------
(* Navigation.                                                             *)

Back(v) ==
    /\ v \in Open
    /\ Pop(v)
    /\ hurried' = (hurried \/ InSave(v))
    /\ UNCHANGED <<catalog, edits, prefs, saves, saving, home, theme, last, torn>>

(* The transition of a popped route ends, and it is disposed of.           *)
TransitionEnds(v) ==
    /\ screen[v] = "leaving"
    /\ screen' = [screen EXCEPT ![v] = "closed"]
    /\ UNCHANGED <<prefs, visit, saving, home, library, theme, rest>>

(* The process ends and starts again, and _loadThemeMode has read.         *)
Restart ==
    /\ memory' = device /\ unwritten' = <<>>
    /\ screen' = [v \in Visits |-> "closed"]
    /\ form' = [v \in Visits |-> Blank]
    /\ busy' = [v \in Visits |-> FALSE]
    /\ saving' = [v \in Visits |-> None]
    /\ home' = TRUE
    /\ library' = LoadingLibrary
    /\ theme' = device.theme
    /\ torn' = (torn \/ ~AllSaved)
    /\ UNCHANGED <<catalog, edits, saves, device, last, hurried>>

Form(v) ==
    \/ SetNativeLanguage(v) \/ Enroll(v) \/ Unenroll(v) \/ SetActive(v) \/ SetTheme(v)

Next ==
    \/ LibraryLoads
    \/ \E v \in Visits :
        \/ OpenSettings(v) \/ BooksArrive(v) \/ Form(v) \/ Save(v)
        \/ Back(v) \/ TransitionEnds(v)
    \/ PlatformWrites \/ PlatformWriteFails
    \/ Restart

Spec == Init /\ [][Next]_vars

-----------------------------------------------------------------------------
(* Properties.                                                             *)

(* Two saves that overlap, key by key, leave what the reader saved last:   *)
(* the device and the app never end up with a mixture of the two.          *)
SavedIsWhole == AllSaved /\ ~torn => memory = last /\ device = last

LibraryShows(s) == library = Shown(Resolve(s, catalog))

(* The app is drawn in the theme saved last, in whatever order the         *)
(* callbacks of two saves come.  And the comment on _dataFuture: "a        *)
(* language switch there has to be reflected here".  It is, whatever was   *)
(* saved, failed to be saved or was not saved, unless the reader left      *)
(* while a save was under way.                                             *)
ShownIsSaved == AllSaved =>
    /\ ~torn => theme = memory.theme
    /\ Open = {} /\ library # LoadingLibrary /\ ~hurried => LibraryShows(memory)

(* A save pops the settings and never the app's root screen, unless the    *)
(* reader left while it was under way.                                     *)
HomeStays == home \/ hurried

ActiveEnrolled(s) == s.active # None => s.active \in Enrolled(s)

(* "Always expected to contain activeStudyLanguage when the latter is      *)
(* non-null; SettingsScreen is what enforces that invariant"               *)
(* (user_settings.dart:27): of what the form shows and what is stored,     *)
(* unless a save was cut off or left.                                      *)
ActiveIsEnrolled == ~hurried /\ ~torn =>
    /\ \A v \in Open : ActiveEnrolled(form[v])
    /\ AllSaved => ActiveEnrolled(memory) /\ ActiveEnrolled(device)

(* The same, whatever happens to the app.                                  *)
FormActiveIsEnrolled == \A v \in Open : ActiveEnrolled(form[v])
=============================================================================
