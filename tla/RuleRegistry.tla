---------------------------- MODULE RuleRegistry ----------------------------
(***************************************************************************)
(* What the rule server promises a client that sends one request at a time:*)
(* a registry of rules in which each rule has a definition, perhaps a      *)
(* committed document, and is mined at most once.  There is no mutex, no   *)
(* map of workers, no directory object and no half executed request: every *)
(* action is the one moment at which a request takes effect.  RuleServer   *)
(* implements it.                                                          *)
(***************************************************************************)
CONSTANTS Rules, Texts, Runnable, None

VARIABLES
  up,      \* the server answers requests
  def,     \* the text each rule is defined with
  doc,     \* the committed document of each rule, [value, isopen]
  running  \* the texts that are being mined for each rule

registry == <<up, def, doc, running>>

Init ==
  /\ up = FALSE
  /\ def = [r \in Rules |-> None]
  /\ doc = [r \in Rules |-> None]
  /\ running = [r \in Rules |-> {}]

(* SET, and the rollback of a DROP that failed.                            *)
Define(r, t) ==
  /\ up
  /\ def' = [def EXCEPT ![r] = t]
  /\ UNCHANGED <<up, doc, running>>

(* DROP, in two moments: only a rule that is not mined is undefined, and   *)
(* only the document of an undefined rule is erased.                       *)
Undefine(r) ==
  /\ up
  /\ running[r] = {}
  /\ def' = [def EXCEPT ![r] = None]
  /\ UNCHANGED <<up, doc, running>>

Erase(r) ==
  /\ up
  /\ def[r] = None
  /\ running[r] = {}
  /\ doc' = [doc EXCEPT ![r] = None]
  /\ UNCHANGED <<up, def, running>>

(* COMMIT persists the definition, as a rule that is not to be resumed.    *)
Commit(r) ==
  /\ up
  /\ def[r] # None
  /\ doc' = [doc EXCEPT ![r] = [value |-> def[r], isopen |-> FALSE]]
  /\ UNCHANGED <<up, def, running>>

(* START: a committed rule that is not mined yet, with its definition.     *)
Start(r) ==
  /\ up
  /\ doc[r] # None
  /\ running[r] = {}
  /\ def[r] \in Runnable
  /\ running' = [running EXCEPT ![r] = {def[r]}]
  /\ UNCHANGED <<up, def, doc>>

(* STOP, and a START that is taken back because it cannot be recorded.     *)
Stop(r) ==
  /\ up
  /\ running[r] # {}
  /\ running' = [running EXCEPT ![r] = {}]
  /\ UNCHANGED <<up, def, doc>>

(* START and STOP record what they did: isopen follows the truth and the   *)
(* committed text is not touched.                                          *)
Record(r) ==
  /\ up
  /\ doc[r] # None
  /\ doc' = [doc EXCEPT ![r].isopen = (running[r] # {})]
  /\ UNCHANGED <<up, def, running>>

(* The process dies, by itself or in a panic; only the documents are left. *)
Crash ==
  /\ up' = FALSE
  /\ def' = [r \in Rules |-> None]
  /\ running' = [r \in Rules |-> {}]
  /\ UNCHANGED doc

(* NewServer defines every committed rule by its document and resumes it   *)
(* if it was open; only then are requests answered.                        *)
Load(r) ==
  /\ ~up
  /\ doc[r] # None
  /\ def[r] = None
  /\ def' = [def EXCEPT ![r] = doc[r].value]
  /\ running' = IF doc[r].isopen /\ doc[r].value \in Runnable
                THEN [running EXCEPT ![r] = {doc[r].value}]
                ELSE running
  /\ UNCHANGED <<up, doc>>

Serve ==
  /\ \A r \in Rules : doc[r] # None => def[r] # None
  /\ up' = TRUE
  /\ UNCHANGED <<def, doc, running>>

Next ==
  \/ \E r \in Rules :
       \/ \E t \in Texts : Define(r, t)
       \/ Undefine(r) \/ Erase(r) \/ Commit(r)
       \/ Start(r) \/ Stop(r) \/ Record(r)
       \/ Load(r)
  \/ Crash \/ Serve

Spec == Init /\ [][Next]_registry
=============================================================================
