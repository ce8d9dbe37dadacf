---------------------------- MODULE LiveWorkspace ----------------------------
(***************************************************************************)
(* The live retrieval pages (services/live_ui.py): the workspace a session *)
(* keeps per page - document, strategy, indexes, results - and the script  *)
(* that Streamlit runs from the top on every interaction.                  *)
(*                                                                         *)
(* Streamlit stops a script at its next output; it starts the next one at  *)
(* once, without waiting for that (runner.fastReruns, the default, which   *)
(* .streamlit/config.toml leaves alone).  A script inside a long call is   *)
(* then two things: gone for the user, and still at work on the same       *)
(* workspace object.  Leaving a spinner is an output, so a stopped script  *)
(* never stores a document or results it was computing; between the last   *)
(* index built and the assignment of the indexes there is none.            *)
(***************************************************************************)
EXTENDS Integers, FiniteSets

CONSTANTS
  Doc, NoDoc,        \* uploads by their bytes and name; none
  Strategy,          \* the keys of LABELS
  AllStrategies,     \* what the comparison page stores as its strategy
  NoStrategy,        \* a workspace without one
  Modes,             \* which of the pages "single" and "compare"
  Question,          \* what may be asked
  None,              \* no indexes, no results
  Impatient          \* whether the user changes document or strategy during long calls

ASSUME WorkspaceAssumption ==
  /\ NoDoc \notin Doc /\ NoStrategy \notin Strategy \cup {AllStrategies}
  /\ Modes \subseteq {"single", "compare"} /\ Impatient \in BOOLEAN

VARIABLES
  widget,  \* which page it is; its uploader and strategy selectbox
  space,   \* st.session_state["<mode>_workspace"]
  script,  \* the current script: where it is and its local variables
  ghosts   \* stopped scripts about to store indexes into space

workspace == <<widget, space, script, ghosts>>

EmptyWorkspace == [doc |-> NoDoc, strategy |-> NoStrategy, indexes |-> None, results |-> None]
IdleScript == [at |-> "idle", press |-> "none", doc |-> NoDoc, left |-> {},
               names |-> {}, indexes |-> None, question |-> None]
Chosen == IF widget.mode = "single" THEN widget.strategy ELSE AllStrategies
Wanted == IF widget.mode = "single" THEN {widget.strategy} ELSE Strategy

(* create_chunks and build_retrieval_index for every name, search_document *)
(* for every index: what the outcome was made from.                        *)
Indexes(doc, names) == [doc |-> doc, names |-> names]
Evidence(indexes, question) == [indexes |-> indexes, question |-> question]

FreshWidgets == [mode : Modes, upload : {NoDoc}, strategy : Strategy]
WorkspaceInit ==
  /\ widget \in FreshWidgets
  /\ space = EmptyWorkspace /\ script = IdleScript /\ ghosts = {}

-----------------------------------------------------------------------------
(* Interactions: each stops the script and starts another *)

LastIndex == script.at = "build" /\ Cardinality(script.left) = 1
LongCall == script.at \in {"extract", "search"} \/ LastIndex \/ ghosts # {}
Interruptible == Impatient \/ ~ LongCall
Haunting == IF LastIndex THEN ghosts \cup {Indexes(script.doc, script.names)} ELSE ghosts

Starts(press, q) == script' = [IdleScript EXCEPT !.at = "start", !.press = press, !.question = q]

Upload(d) ==
  /\ Interruptible /\ widget.upload # d
  /\ widget' = [widget EXCEPT !.upload = d]
  /\ Starts("none", None) /\ ghosts' = Haunting
  /\ UNCHANGED space

(* upload_changed, or clear_workspace: the workspace object is dropped, and *)
(* with it whatever a stopped script will still write to it.                *)
Remove ==
  /\ (widget.upload # NoDoc \/ space.doc # NoDoc)
  /\ widget' = [widget EXCEPT !.upload = NoDoc]
  /\ space' = EmptyWorkspace /\ ghosts' = {}
  /\ Starts("none", None)

(* Another page and back: the uploader forgets its file, the session does not. *)
SwitchPages ==
  /\ widget' = [widget EXCEPT !.upload = NoDoc]
  /\ Starts("none", None) /\ ghosts' = Haunting
  /\ UNCHANGED space

Select(s) ==
  /\ Interruptible /\ widget.mode = "single" /\ space.doc # NoDoc /\ widget.strategy # s
  /\ widget' = [widget EXCEPT !.strategy = s]
  /\ Starts("none", None) /\ ghosts' = Haunting
  /\ UNCHANGED space

PressBuild ==
  /\ space.doc # NoDoc
  /\ Starts("build", None) /\ ghosts' = Haunting
  /\ UNCHANGED <<widget, space>>

(* The search form is drawn below the indexes. *)
PressSearch(q) ==
  /\ space.indexes # None
  /\ Starts("search", q) /\ ghosts' = Haunting
  /\ UNCHANGED <<widget, space>>

-----------------------------------------------------------------------------
(* The script: run(mode) *)

Cleared(s) == EmptyWorkspace

(* Lines 29 to 43: a new upload empties the workspace before it is read. *)
Begin ==
  /\ script.at = "start"
  /\ IF widget.upload \notin {NoDoc, space.doc}
     THEN space' = Cleared(space) /\ script' = [script EXCEPT !.at = "extract"]
     ELSE /\ script' = IF space.doc = NoDoc THEN IdleScript ELSE [script EXCEPT !.at = "body"]
          /\ UNCHANGED space
  /\ UNCHANGED <<widget, ghosts>>

(* extract_pdf, which raises for what it cannot read. *)
Extract ==
  /\ script.at = "extract"
  /\ \/ /\ space' = [space EXCEPT !.doc = widget.upload]
        /\ script' = [script EXCEPT !.at = "body"]
     \/ script' = IdleScript /\ UNCHANGED space
  /\ UNCHANGED <<widget, ghosts>>

StrategyOnly(s) == [s EXCEPT !.strategy = Chosen]   \* a mistake: nothing is invalidated
Invalidated(s) == [s EXCEPT !.strategy = Chosen, !.indexes = None, !.results = None]

BuildStarted(s) == [s EXCEPT !.indexes = None, !.results = None]

SearchStarted(s) == [s EXCEPT !.results = None]

(* Lines 45 to 94: the strategy, then the button that was pressed, if any.   *)
(* A question of blanks only drops the results.                              *)
Body ==
  LET s == IF space.strategy # Chosen THEN Invalidated(space) ELSE space
  IN /\ script.at = "body"
     /\ CASE script.press = "build" ->
               /\ space' = BuildStarted(s)
               /\ script' = [script EXCEPT !.at = "build", !.doc = s.doc, !.left = Wanted,
                                           !.names = Wanted]
          [] script.press = "search" /\ s.indexes # None ->
               /\ space' = SearchStarted(s)
               /\ \/ script' = [script EXCEPT !.at = "search", !.indexes = s.indexes]
                  \/ script' = IdleScript
          [] OTHER -> space' = s /\ script' = IdleScript
     /\ UNCHANGED <<widget, ghosts>>

BuildOne(name) ==
  /\ script.at = "build" /\ name \in script.left
  /\ IF LastIndex
     THEN /\ space' = [space EXCEPT !.indexes = Indexes(script.doc, script.names)]
          /\ script' = IdleScript
     ELSE script' = [script EXCEPT !.left = @ \ {name}] /\ UNCHANGED space
  /\ UNCHANGED <<widget, ghosts>>

(* No chunks, an index of the wrong size, no model: raised and shown. *)
BuildFails ==
  /\ script.at = "build"
  /\ script' = IdleScript
  /\ UNCHANGED <<widget, space, ghosts>>

Search ==
  /\ script.at = "search"
  /\ \/ space' = [space EXCEPT !.results = Evidence(script.indexes, script.question)]
     \/ UNCHANGED space              \* it raises
  /\ script' = IdleScript
  /\ UNCHANGED <<widget, ghosts>>

(* A stopped script finishes its last index, stores all of them and stops. *)
GhostStores(g) ==
  /\ g \in ghosts
  /\ ghosts' = ghosts \ {g}
  /\ space' = [space EXCEPT !.indexes = g]
  /\ UNCHANGED <<widget, script>>

Interaction ==
  \/ \E d \in Doc : Upload(d)
  \/ \E s \in Strategy : Select(s)
  \/ \E q \in Question : PressSearch(q)
  \/ Remove \/ SwitchPages \/ PressBuild

ScriptStep ==
  \/ Begin \/ Extract \/ Body \/ BuildFails \/ Search
  \/ \E name \in Strategy : BuildOne(name)

WorkspaceNext == Interaction \/ ScriptStep \/ \E g \in ghosts : GhostStores(g)

WorkspaceSpec == WorkspaceInit /\ [][WorkspaceNext]_workspace

-----------------------------------------------------------------------------
Possible == [doc : Doc, names : SUBSET Strategy]

(* Workspace and script hold what they can hold, and a document shown while *)
(* there is an upload is that upload, unless the script is yet to see it.   *)
WorkspaceTypeOK ==
  /\ widget \in [mode : Modes, upload : Doc \cup {NoDoc}, strategy : Strategy]
  /\ space.doc \in Doc \cup {NoDoc}
  /\ space.strategy \in Strategy \cup {AllStrategies, NoStrategy}
  /\ space.indexes \in Possible \cup {None}
  /\ space.results = None \/ space.results \in [indexes : Possible, question : Question]
  /\ script.at \in {"idle", "start", "extract", "body", "build", "search"}
  /\ ghosts \subseteq Possible
  /\ script.at # "start" => space.doc = NoDoc \/ widget.upload \in {NoDoc, space.doc}

(* "Replacing a document or changing the single strategy invalidates indexes *)
(* and evidence" (README.md:70): what the page searches was built from the   *)
(* document it shows, for the strategy stored beside it, all or nothing, and *)
(* the evidence it shows was found in those indexes.                         *)
Built(names) == IF widget.mode = "single" THEN names = {space.strategy} ELSE names = Strategy
EvidenceBelongs ==
  /\ space.indexes # None => space.indexes.doc = space.doc /\ Built(space.indexes.names)
  /\ space.results # None => space.results.indexes = space.indexes
=============================================================================
