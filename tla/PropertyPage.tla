---------------------------- MODULE PropertyPage ----------------------------
(***************************************************************************)
(* The filter's property page: CBasePropertyPage (cprop.cpp) and           *)
(* MetadataInjectorProperties (metadata_injector_properties.cpp), which    *)
(* shows the name of the configuration file in one edit control.  All runs *)
(* on the thread of the property frame, which makes the page active when   *)
(* it is looked at and inactive when another page is.                      *)
(*                                                                         *)
(* The filter and the page keep the name as bytes of the code page, the    *)
(* control as wide characters.  OnActivate widens the bytes one by one,    *)
(* sign-extended, which is right for ASCII alone; GetControlValues converts *)
(* to the code page, which puts question marks for what it has not.        *)
(***************************************************************************)
EXTENDS Integers

CONSTANTS
  FileNames, \* the names of configuration files, in the code page
  Ascii,     \* those of ASCII characters
  Foreign,   \* names that can be typed, of characters the code page has not
  Empty,     \* the empty name
  Lost,      \* the name of question marks that such a text becomes
  Mojibake   \* the text that is shown for a name that is not ASCII

PageAssumption ==
  /\ Ascii \subseteq FileNames
  /\ {Empty, Lost, Mojibake} \cap (FileNames \cup Foreign) = {}
  /\ FileNames \cap Foreign = {}
  /\ Empty # Lost /\ Empty # Mojibake /\ Lost # Mojibake

VARIABLES
  m_pPageSite,    \* the page has a site
  m_bObjectSet, mDMIFInterface,
  m_hwnd,         \* there is a dialog; m_Dlg keeps its handle for good
  m_bDirty, mIsInitialized,
  mConfigFilename, \* that of the page
  text,           \* that of the edit control, while there is one
  filterName,     \* the mConfigFilename of the filter
  references,     \* external: those of the page to the filter
  alive,          \* the page has not been deleted
  meant           \* auxiliary: what the user wants the name to be
                  \* or, if the page was applied unseen since, what that made it

vars == <<m_pPageSite, m_bObjectSet, mDMIFInterface, m_hwnd, m_bDirty, mIsInitialized,
          mConfigFilename, text, filterName, references, alive, meant>>

Names == FileNames \cup {Empty, Lost}
Texts == Names \cup Foreign \cup {Mojibake}

Plain == Ascii \cup {Empty, Lost}
Widen(name) == IF name \in Plain THEN name ELSE Mojibake
Narrow(t) == IF t \in Names THEN t ELSE Lost

TypeOK ==
  /\ {m_pPageSite, m_bObjectSet, mDMIFInterface, m_hwnd, m_bDirty, mIsInitialized, alive} \subseteq BOOLEAN
  /\ {mConfigFilename, filterName} \subseteq Names
  /\ {text, meant} \subseteq Texts
  /\ references \in Nat

Init ==
  /\ m_pPageSite = FALSE /\ m_bObjectSet = FALSE /\ mDMIFInterface = FALSE /\ m_hwnd = FALSE
  /\ m_bDirty = FALSE /\ mIsInitialized = FALSE
  /\ mConfigFilename = Empty /\ text = Empty
  /\ filterName \in FileNames \cup {Empty} /\ meant = filterName
  /\ references = 0 /\ alive = TRUE

SetPageSite ==
  /\ alive /\ ~m_pPageSite
  /\ m_pPageSite' = TRUE
  /\ UNCHANGED <<m_bObjectSet, mDMIFInterface, m_hwnd, m_bDirty, mIsInitialized, mConfigFilename,
                 text, filterName, references, alive, meant>>

\* SetObjects(1) and OnConnect.  The filter has the interface.  The page keeps
\* m_bDirty as it is.
SetObjects ==
  /\ alive /\ ~m_bObjectSet /\ ~m_hwnd
  /\ m_bObjectSet' = TRUE
  /\ mDMIFInterface' = TRUE /\ references' = references + 1
  /\ mConfigFilename' = filterName /\ meant' = filterName
  /\ mIsInitialized' = FALSE
  /\ UNCHANGED <<m_pPageSite, m_hwnd, m_bDirty, text, filterName, alive>>

\* SetObjects(0) and OnDisconnect.
Disconnect ==
  /\ alive /\ m_bObjectSet /\ ~m_hwnd
  /\ m_bObjectSet' = FALSE
  /\ mDMIFInterface' = FALSE
  /\ references' = IF mDMIFInterface THEN references - 1 ELSE references
  /\ UNCHANGED <<m_pPageSite, m_hwnd, m_bDirty, mIsInitialized, mConfigFilename, text, filterName,
                 alive, meant>>

\* Activate and OnActivate.  The control tells of the text that it is given, but
\* only what comes after makes the page dirty.
Activate ==
  /\ alive /\ m_bObjectSet /\ ~m_hwnd
  /\ m_hwnd' = TRUE
  /\ text' = Widen(mConfigFilename)
  /\ m_bDirty' = (m_bDirty \/ mIsInitialized)
  /\ mIsInitialized' = TRUE
  /\ UNCHANGED <<m_pPageSite, m_bObjectSet, mDMIFInterface, mConfigFilename, filterName, references,
                 alive, meant>>

\* Any WM_COMMAND of a control: the page takes it for a change.
Command ==
  /\ m_hwnd
  /\ m_bDirty' = (m_bDirty \/ mIsInitialized)
  /\ UNCHANGED <<m_pPageSite, m_bObjectSet, mDMIFInterface, m_hwnd, mIsInitialized, mConfigFilename,
                 filterName, references, alive>>

\* The user types; or the control gets the focus, or loses it.
Edit(t) == Command /\ text' = t /\ meant' = t
Focus == Command /\ UNCHANGED <<text, meant>>

\* GetControlValues.  A dialog that has gone leaves the buffer, uninitialised.
GetControlValues ==
  IF m_hwnd THEN mConfigFilename' = Narrow(text) ELSE mConfigFilename' \in Names

\* Deactivate and OnDeactivate.
Deactivate ==
  /\ m_hwnd
  /\ mIsInitialized' = FALSE
  /\ GetControlValues
  /\ m_hwnd' = FALSE
  /\ UNCHANGED <<m_pPageSite, m_bObjectSet, mDMIFInterface, m_bDirty, text, filterName, references,
                 alive, meant>>

\* Apply and OnApplyChanges, which keeps the page dirty only if it has no filter.  The
\* page need not be active.
Apply ==
  /\ alive /\ m_bObjectSet /\ m_pPageSite /\ m_bDirty
  /\ GetControlValues
  /\ IF mDMIFInterface
     THEN filterName' = mConfigFilename' /\ m_bDirty' = FALSE
     ELSE UNCHANGED <<filterName, m_bDirty>>
  /\ meant' = IF m_hwnd THEN meant ELSE mConfigFilename'
  /\ UNCHANGED <<m_pPageSite, m_bObjectSet, mDMIFInterface, m_hwnd, mIsInitialized, text,
                 references, alive>>

\* The last NonDelegatingRelease, of a page whose window is gone.
Release ==
  /\ alive /\ ~m_hwnd
  /\ m_pPageSite' = FALSE /\ m_bObjectSet' = FALSE /\ mDMIFInterface' = FALSE
  /\ references' = IF mDMIFInterface THEN references - 1 ELSE references
  /\ alive' = FALSE
  /\ UNCHANGED <<m_hwnd, m_bDirty, mIsInitialized, mConfigFilename, text, filterName, meant>>

Deleted == ~alive /\ UNCHANGED vars

Next ==
  \/ SetPageSite \/ SetObjects \/ Disconnect \/ Activate \/ Focus \/ Deactivate \/ Apply \/ Release \/ Deleted
  \/ \E t \in FileNames \cup Foreign \cup {Empty} : Edit(t)

Spec == Init /\ [][Next]_vars

-----------------------------------------------------------------------------
(* Properties.                                                             *)

\* The names that a text may become on its way through the control and the code page.
Becomes(t) == IF t \in Plain THEN {t} ELSE {t, Lost}

\* What the user typed is there when the page is looked at again, if it is ASCII, and
\* until it is applied the page knows that there is something to apply.  (A name that
\* is not ASCII is shown garbled, and becomes question marks.)
EditsKept ==
  m_bObjectSet => /\ meant \in Plain => meant = IF m_hwnd THEN text ELSE mConfigFilename
                  /\ filterName \notin Becomes(meant) => m_bDirty

\* A page that is shown gives the filter the name that somebody chose: one that nothing
\* was typed into changes no name of ASCII characters.  (Another name is lost when the
\* page is applied after no more than a focus; and a page applied after it was
\* deactivated, with its change still to be applied, writes what its buffer held.)
OnlyWhatWasTyped == [][filterName' # filterName /\ m_hwnd => filterName' \in Becomes(meant)]_vars

\* The page has a reference to the filter while it is connected, and a deleted
\* page has none.
ReferenceHeld == references = (IF mDMIFInterface THEN 1 ELSE 0) /\ (~alive => references = 0)

=============================================================================
