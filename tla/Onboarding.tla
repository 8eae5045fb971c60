------------------------------ MODULE Onboarding ------------------------------
(* The guided setup: one document of steps and choices, written by any number *)
(* of browser tabs.  A tab reads the document and replaces it only if it is    *)
(* still the one it read; a step is checked against the choices of a moment    *)
(* and recorded later.                                                         *)
(* Translated from apps/server/src/onboarding.ts and the onboarding routes of  *)
(* apps/server/src/http.ts.  What a check asks the server is its outcome;      *)
(* titles and queries (the metadata query and the chosen download, which reset *)
(* no step) are values; where the wizard stands and its release target are     *)
(* left out, no rule reads them.                                               *)
EXTENDS Naturals, FiniteSets

CONSTANTS Tabs,         \* requests in progress at a time
          PlainSteps,   \* steps that depend on no choice here: libraries, metadata
          Modes,        \* acquisition modes but for "none"
          Titles,       \* files a first title may be
          Queries,
          Attempts,     \* attempts of the compare and swap
          MaxRequests,  \* bound on the choices and steps asked for
          Unset

ASSUME SetupBounds == Attempts \in Nat \ {0} /\ MaxRequests \in Nat
ASSUME SomethingToChoose == Modes # {} /\ Titles # {}

VARIABLES setup,        \* the row: [steps, choices, complete]
          request,      \* [Tabs -> a request in progress, or NoRequest]
          requests,
          chosen,       \* history: the last acknowledged value of every choice
          shown         \* history: the choices a resting step was last recorded under

setupVars == <<setup, request, requests, chosen, shown>>

Required == {"administrator", "experience", "final-health"}
Resting  == {"acquisition", "first-title", "playback"}   \* on a choice
SetupSteps == Required \cup PlainSteps \cup Resting
Choices  == [media : BOOLEAN, mode : Modes \cup {"none"}, title : Titles \cup {Unset},
             query : Queries \cup {Unset}]
Statuses == {"pending", "configured", "done", "skipped", "failed"}
Setups   == [steps : [SetupSteps -> Statuses], choices : Choices, complete : BOOLEAN]
Finished(status) == status \in {"done", "skipped"}

With(doc, steps, status) ==
    [doc EXCEPT !.steps = [s \in SetupSteps |-> IF s \in steps THEN status ELSE @[s]]]

NoChoices == [media |-> FALSE, mode |-> "none", title |-> Unset, query |-> Unset]
NewSetup  == [steps |-> [s \in SetupSteps |-> "pending"], choices |-> NoChoices, complete |-> FALSE]
\* Everything that can be left for later was.
Postponed == With(With(With(NewSetup, SetupSteps, "skipped"), Required, "done"),
                  {"final-health"}, "pending")
\* Everything was chosen and nothing that rests on a choice was checked yet.
Choosing == [With(With(NewSetup, SetupSteps, "done"), Resting \cup {"final-health"}, "pending") EXCEPT
               !.choices = [media |-> TRUE, mode |-> CHOOSE m \in Modes : TRUE,
                            title |-> CHOOSE file \in Titles : TRUE, query |-> Unset]]
\* A finished setup of version 1: what it recorded as done was not verified,
\* and what it did not know is skipped.
Legacy == [steps    |-> [s \in SetupSteps |-> IF s \in PlainSteps THEN "configured"
                                         ELSE IF s \in Required \ {"experience"} THEN "done"
                                         ELSE "skipped"],
           choices  |-> [NoChoices EXCEPT !.media = TRUE],
           complete |-> TRUE]

\* A request sets some choices, or completes or skips a step; doc is the row as
\* it was last read, choices are those the check was made for.
Request(at, body, step, result) ==
    [at |-> at, body |-> body, step |-> step, result |-> result,
     choices |-> IF step = "none" THEN NoChoices ELSE setup.choices,
     doc |-> NewSetup, left |-> Attempts]
NoRequest == [at |-> "idle"]
NoBody    == [fields |-> {}, values |-> NoChoices]

SetupTypeOK ==
    /\ setup \in Setups /\ chosen \in Choices /\ shown \in [Resting -> Choices]
    /\ DOMAIN request = Tabs /\ requests \in 0 .. MaxRequests
    /\ \A t \in Tabs : request[t] # NoRequest =>
          /\ request[t].at \in {"check", "read", "write"}
          /\ request[t].doc \in Setups /\ request[t].left \in 1 .. Attempts
          /\ request[t].result \in Statuses \cup {"none"}

SetupInit ==
    /\ setup \in {NewSetup, Postponed, Choosing, Legacy}
    /\ request = [t \in Tabs |-> NoRequest] /\ requests = 0
    /\ chosen = setup.choices
    /\ shown = [s \in Resting |-> setup.choices]

------------------------------------------------------------------------------
\* What a request makes of the document it read.

\* preferences: the steps that rest on a changed choice have to be checked again.
Reset(doc, old) ==
    LET now == doc.choices
        Changed(field) == now[field] # old[field]
        reopened == {s \in Resting :
                        \/ s = "acquisition" /\ Changed("mode")
                        \/ s = "first-title" /\ Changed("title")
                        \/ s = "playback" /\ now.media /\ ( \/ Changed("title")
                                                            \/ Changed("media") /\ ~doc.complete )}
        closed   == IF Changed("media") /\ ~now.media /\ ~doc.complete THEN {"playback"} ELSE {}
    IN With(With(doc, reopened, "pending"), closed, "skipped")
Set(choices, body) ==
    LET Now(f) == IF f \in body.fields THEN body.values[f] ELSE choices[f] IN
    [media |-> Now("media"), mode |-> Now("mode"), title |-> Now("title"), query |-> Now("query")]
Preferred(doc, body) == Reset([doc EXCEPT !.choices = Set(@, body)], doc.choices)

\* setStep: refused when the choices are no longer those of the check, and the
\* last step while another one is open or its check failed.
AnyChoices(doc, r)   == TRUE
ChoicesStand(doc, r) == doc.choices = r.choices
Refused(doc, r) ==
    \/ ~ChoicesStand(doc, r)
    \/ /\ r.step = "final-health"
       /\ r.result # "done" \/ \E s \in SetupSteps \ {r.step} : ~Finished(doc.steps[s])
Recorded(doc, r) ==
    LET closed == IF r.step = "experience" /\ ~doc.choices.media THEN {"playback"} ELSE {} IN
    [With(With(doc, {r.step}, r.result), closed, "skipped") EXCEPT
        !.complete = @ \/ r.step = "final-health"]

IsPreference(r) == r.step = "none"
Result(doc, r) == IF IsPreference(r) THEN Preferred(doc, r.body) ELSE Recorded(doc, r)

\* checkStep: what depends on a choice that was not made is skipped or fails.
Outcomes(step, choices) ==
    CASE step \in {"administrator", "experience"} -> {"done"}
      [] step = "acquisition" /\ choices.mode = "none" -> {"skipped"}
      [] step = "playback" /\ ~choices.media -> {"skipped"}
      [] step = "first-title" /\ choices.title = Unset -> {"failed"}
      [] step = "playback" /\ choices.media /\ choices.title = Unset -> {"failed"}
      [] OTHER -> {"done", "failed"}

------------------------------------------------------------------------------
\* The requests.

Asks(t, r) ==
    /\ request[t] = NoRequest /\ request' = [request EXCEPT ![t] = r]
    /\ requests' = requests + (IF IsPreference(r) THEN Cardinality(r.body.fields) ELSE 1)
    /\ requests' <= MaxRequests
    /\ UNCHANGED <<setup, chosen, shown>>

\* A body gives values to some of the choices.
Bodies ==
    UNION { {[fields |-> fields, values |-> v] :
                v \in {c \in Choices : \A f \in DOMAIN c \ fields : c[f] = NoChoices[f]}} :
            fields \in (SUBSET DOMAIN NoChoices) \ {{}} }
Prefers(t) == \E body \in Bodies : Asks(t, Request("read", body, "none", "none"))
Completes(t) == \E step \in SetupSteps : Asks(t, Request("check", NoBody, step, "none"))
Skips(t) == \E step \in SetupSteps \ Required : Asks(t, Request("read", NoBody, step, "skipped"))

Stands(t, at) == request[t].at = at
Becomes(t, r) == request' = [request EXCEPT ![t] = r]

Checks(t) ==
    /\ Stands(t, "check")
    /\ \E found \in Outcomes(request[t].step, request[t].choices) :
          Becomes(t, [request[t] EXCEPT !.at = "read", !.result = found])
    /\ UNCHANGED <<setup, requests, chosen, shown>>

\* change: read and compute, which may refuse ...
Reads(t) ==
    /\ Stands(t, "read")
    /\ Becomes(t, IF ~IsPreference(request[t]) /\ Refused(setup, request[t]) THEN NoRequest
                  ELSE [request[t] EXCEPT !.at = "write", !.doc = setup])
    /\ UNCHANGED <<setup, requests, chosen, shown>>

\* ... and replace the row only while it is the one that was read.
SameRow(t) == setup = request[t].doc
Replaces(t) ==
    /\ Stands(t, "write") /\ SameRow(t)
    /\ LET r == request[t] IN
          /\ setup' = Result(r.doc, r)
          /\ chosen' = Set(chosen, r.body)
          /\ shown' = [s \in Resting |-> IF s = r.step THEN r.choices ELSE shown[s]]
    /\ Becomes(t, NoRequest)
    /\ UNCHANGED requests
TriesAgain(t) ==
    /\ Stands(t, "write") /\ ~SameRow(t)
    /\ Becomes(t, IF request[t].left = 1 THEN NoRequest
                  ELSE [request[t] EXCEPT !.at = "read", !.doc = NewSetup, !.left = @ - 1])
    /\ UNCHANGED <<setup, requests, chosen, shown>>

\* The server stops: requests in progress are lost, the row is not.
Interrupted ==
    /\ \E t \in Tabs : request[t] # NoRequest
    /\ request' = [t \in Tabs |-> NoRequest]
    /\ UNCHANGED <<setup, requests, chosen, shown>>

SetupNext ==
    \/ Interrupted
    \/ \E t \in Tabs : \/ Prefers(t) \/ Completes(t) \/ Skips(t)
                       \/ Checks(t) \/ Reads(t) \/ Replaces(t) \/ TriesAgain(t)

SetupSpec == SetupInit /\ [][SetupNext]_setupVars

------------------------------------------------------------------------------
\* Hazard: two tabs save the whole document at the same time.  No request
\* replaces a choice another one was told is saved (onboarding.ts:75).
NothingReplaced == setup.choices = chosen

\* Hazard: a check takes seconds, its result is recorded later, and choices
\* change before and after.  A step is done only for the choice it rests on:
\* acquisition for this mode, the first title and, until the setup is complete,
\* playback for this title (onboarding.ts:91-102, 116).
DoneAsChosen ==
    LET Done(step) == setup.steps[step] = "done" IN
    /\ Done("acquisition") => shown["acquisition"].mode = setup.choices.mode
    /\ Done("first-title") => shown["first-title"].title = setup.choices.title
    /\ Done("playback") /\ ~setup.complete =>
          setup.choices.media /\ shown["playback"].title = setup.choices.title

\* Both, over any number of tabs: what a tab was told holds, of choices and of
\* steps, until somebody chooses otherwise.
SetupKept == NothingReplaced /\ DoneAsChosen
==============================================================================
