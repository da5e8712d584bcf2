------------------------------- MODULE Forms --------------------------------
(***************************************************************************)
(* Two forms of packages/form with a state and a specification each:       *)
(* FormStore (Spec), and the form of steps (WizardSpec).                   *)
(*                                                                         *)
(* FormStore of packages/form: values with the verdict shown for each,     *)
(* synchronous rules that run with every edit, asynchronous ones that run  *)
(* after a debounce under one generation counter for all fields, and       *)
(* submit, which validates twice before it calls the handler.              *)
(***************************************************************************)
EXTENDS Integers, FiniteSets

CONSTANTS
  Fields,        \* names of fields
  Dynamic,       \* those that addField and removeField are called for
  Values,
  Initial,       \* the initial value of every field
  SyncRejects,   \* <<f, v>>: the rules of f refuse v at once
  AsyncRejects,  \* <<f, v>>: the server refuses v for f
  Confirms,      \* <<f, g>>: f has the rule equalsField:g
  MaxChecks      \* bound: asynchronous validations under way at once

VARIABLES
  present,  \* the fields of the form; removeField takes one away
  value,
  verdict,  \* validation.valid of every field
  flag,     \* validating of every field
  valid,    \* two of the flags of the form
  submitting,
  timers,   \* _asyncValidationTimers
  checks,   \* the validations that are awaited
  mixed,    \* the last whole-form answer came after an edit, and nothing was edited since
  handed    \* what the handler was last called with

vars == <<present, value, verdict, flag, valid, submitting, timers, checks, mixed, handed>>
formVars == <<value, submitting, timers, present, mixed, handed>>

SyncOk(f, v) == <<f, v[f]>> \notin SyncRejects /\ \A p \in Confirms : p[1] = f => v[f] = v[p[2]]
FullyOk(f, v) == SyncOk(f, v) /\ <<f, v[f]>> \notin AsyncRejects

\* A validation that is awaited: of which fields, which of them the server will accept,
\* whether for the whole form and for submit, whether its generation is still the newest,
\* and whether a value it is about was edited since.
Check(fields, kind) ==
  [id |-> CHOOSE i \in 1..MaxChecks : \A c \in checks : c.id # i,
   of |-> fields, ok |-> {f \in fields : FullyOk(f, value)}, kind |-> kind,
   newest |-> TRUE, edited |-> FALSE]

TypeOK ==
  /\ present \subseteq Fields /\ value \in [Fields -> Values]
  /\ verdict \in [Fields -> BOOLEAN] /\ flag \in [Fields -> BOOLEAN]
  /\ {valid, submitting, mixed} \subseteq BOOLEAN
  /\ timers \subseteq Fields
  /\ checks \subseteq [id : 1..MaxChecks, of : SUBSET Fields, ok : SUBSET Fields,
                       kind : {"field", "form", "submit"}, newest : BOOLEAN, edited : BOOLEAN]
  /\ handed \in {"nothing", "accepted values", "edited values", "refused values"}

Init ==
  /\ present = Fields /\ value = [f \in Fields |-> Initial]
  /\ verdict = [f \in Fields |-> <<f, Initial>> \notin SyncRejects]
  /\ flag = [f \in Fields |-> FALSE]
  /\ valid = (\A f \in Fields : verdict[f])
  /\ submitting = FALSE /\ timers = {} /\ checks = {}
  /\ mixed = FALSE /\ handed = "nothing"

AllValid(verdicts, fields) == \A f \in fields : verdicts[f]

Edited(fields) ==
  checks' = {[c EXCEPT !.edited = @ \/ c.kind # "field" \/ c.of \cap fields # {}] : c \in checks}

\* _updateField judges the field and every field that refers to another one, and setValue
\* then starts the debounce, for a field that was removed as well.
setValue(f, v) ==
  /\ timers' = timers \cup {f}
  /\ IF f \notin present THEN UNCHANGED <<value, verdict, valid, checks, mixed>>
     ELSE /\ value' = [value EXCEPT ![f] = v]
          /\ verdict' = [g \in Fields |-> IF g \in present /\ (g = f \/ \E p \in Confirms : p[1] = g)
                                          THEN SyncOk(g, value') ELSE verdict[g]]
          /\ valid' = AllValid(verdict', present)
          /\ mixed' = FALSE /\ Edited({f})
  /\ UNCHANGED <<present, flag, submitting, handed>>

\* The debounce ends: _validateFieldAsync up to its await. The counter moves on first, so
\* no validation under way has the newest generation any more.
TimerFires(f) ==
  /\ f \in timers /\ timers' = timers \ {f}
  /\ Cardinality(checks) < MaxChecks
  /\ LET older == {[c EXCEPT !.newest = FALSE] : c \in checks}
     IN IF f \notin present THEN checks' = older /\ UNCHANGED flag
        ELSE /\ checks' = older \cup {Check({f}, "field")}
             /\ flag' = [flag EXCEPT ![f] = TRUE]
  /\ UNCHANGED <<present, value, verdict, valid, submitting, mixed, handed>>

\* Faulty variant: valid is computed before the answer is in the fields.
FormValidBefore(verdicts) == AllValid(verdict, present)

FormValid(verdicts) == AllValid(verdicts, present)

\* The answer for one field; it is shown only if no validation was started since.
FieldAnswer(c) ==
  /\ c.kind = "field" /\ checks' = checks \ {c}
  /\ \E f \in c.of :
       IF f \notin present \/ ~c.newest THEN UNCHANGED <<verdict, flag, valid, mixed>>
       ELSE /\ verdict' = [verdict EXCEPT ![f] = f \in c.ok]
            /\ flag' = [flag EXCEPT ![f] = FALSE]
            /\ valid' = FormValid(verdict')
            /\ mixed' = FALSE
  /\ UNCHANGED <<present, value, submitting, timers, handed>>

\* The rule throws: nobody catches it, the flags stay.
AnswerThrows(c) ==
  /\ checks' = checks \ {c}
  /\ UNCHANGED <<formVars, verdict, flag, valid>>

validate ==
  /\ verdict' = [f \in Fields |-> IF f \in present THEN SyncOk(f, value) ELSE verdict[f]]
  /\ valid' = FormValid(verdict')
  /\ mixed' = FALSE

\* validateAsync called by itself, or from submit after touchAll and validate.
validateAsync ==
  /\ Cardinality(checks) < MaxChecks
  /\ checks' = checks \cup {Check(present, "form")}
  /\ UNCHANGED <<formVars, verdict, flag, valid>>

submit ==
  /\ Cardinality(checks) < MaxChecks
  /\ validate
  /\ IF valid' THEN checks' = checks \cup {Check(present, "submit")}
               ELSE UNCHANGED checks
  /\ UNCHANGED <<present, value, flag, submitting, timers, handed>>

\* Faulty variant: submit looks at the form's flag and not at the answer it awaited.
AcceptsAsShown(c) == valid

Accepts(c) == c.ok = c.of

\* The answer for the whole form, of the values it was asked for; if it is submit that
\* waits and all is well, the handler is called with the values there are now.
FormAnswer(c) ==
  /\ c.kind # "field" /\ checks' = checks \ {c}
  /\ verdict' = [f \in Fields |-> IF f \in c.of \cap present THEN f \in c.ok ELSE verdict[f]]
  /\ flag' = [f \in Fields |-> flag[f] /\ f \notin c.of \cap present]
  /\ valid' = Accepts(c) /\ mixed' = c.edited
  /\ IF c.kind = "submit" /\ Accepts(c)
     THEN /\ submitting' = TRUE
          /\ handed' = IF \A f \in present : FullyOk(f, value) THEN "accepted values"
                       ELSE IF c.edited THEN "edited values" ELSE "refused values"
     ELSE UNCHANGED <<submitting, handed>>
  /\ UNCHANGED <<present, value, timers>>

\* The handler returns or throws.
HandlerEnds ==
  /\ submitting /\ submitting' = FALSE
  /\ UNCHANGED <<present, value, verdict, flag, valid, timers, checks, mixed, handed>>

\* addField and removeField change what the form consists of.
addField(f) ==
  /\ f \notin present /\ present' = present \cup {f}
  /\ value' = [value EXCEPT ![f] = Initial]
  /\ verdict' = [verdict EXCEPT ![f] = <<f, Initial>> \notin SyncRejects]
  /\ flag' = [flag EXCEPT ![f] = FALSE]
  /\ valid' = AllValid(verdict', present')
  /\ mixed' = FALSE /\ Edited({f})
  /\ UNCHANGED <<submitting, timers, handed>>

removeField(f) ==
  /\ f \in Dynamic /\ f \in present /\ present' = present \ {f}
  /\ value' = [value EXCEPT ![f] = Initial]
  /\ verdict' = [verdict EXCEPT ![f] = TRUE] /\ flag' = [flag EXCEPT ![f] = FALSE]
  /\ valid' = AllValid(verdict', present')
  /\ mixed' = FALSE /\ Edited({f})
  /\ UNCHANGED <<submitting, timers, handed>>

\* reset clears the timers and every flag, but not the generation: an answer on its way
\* will be shown for the initial value.
reset ==
  /\ timers' = {} /\ value' = [f \in Fields |-> IF f \in present THEN Initial ELSE value[f]]
  /\ verdict' = [f \in Fields |-> IF f \in present THEN <<f, Initial>> \notin SyncRejects ELSE verdict[f]]
  /\ flag' = [f \in Fields |-> FALSE] /\ submitting' = FALSE
  /\ valid' = AllValid(verdict', present)
  /\ mixed' = FALSE /\ Edited(Fields)
  /\ UNCHANGED <<present, handed>>

Next ==
  \/ \E f \in Fields, v \in Values : setValue(f, v)
  \/ \E f \in Fields : TimerFires(f) \/ addField(f) \/ removeField(f)
  \/ \E c \in checks : FieldAnswer(c) \/ FormAnswer(c) \/ AnswerThrows(c)
  \/ validateAsync \/ submit \/ HandlerEnds \/ reset

Spec == Init /\ [][Next]_vars

------------------------------------------------------------------------------
(* What is checked *)

\* The handler gets values that all rules, the server's included, accept, unless they were
\* edited between the call of submit and that of the handler.
HandlerGetsCheckedValues == handed # "refused values"

\* The form is shown as valid exactly when every field is, unless the answer for the whole
\* form, which is about older values, came last.
ValidMeansAllValid == mixed \/ (valid <=> AllValid(verdict, present))

------------------------------------------------------------------------------
(***************************************************************************)
(* Second part, with a state of its own: createAdvancedForm and            *)
(* createWizardForm of packages/form: checks of the fields that are        *)
(* awaited without anything to put their answers in order, validation of   *)
(* the whole form before the handler, steps that are left after their      *)
(* checks, and autosave behind a timer.                                    *)
(***************************************************************************)

CONSTANTS
  Steps,      \* 1..n, the steps; each has one field, named like it
  Good, Bad,  \* values: the validators accept the one and refuse the other
  MaxRuns,    \* bound: validations under way
  MaxCalls    \* bound: calls of the form's methods

VARIABLES
  stepValue,
  error,       \* the fields with an error
  outdated,    \* those whose error, or its absence, is about a value they no longer have
  runs,        \* the validations under way
  validating,  \* "stuck" if a validator threw and the flag was left set
  currentStep,
  unseen,      \* what the effects have not yet seen a change of: {"step"}, {"values"}, both or none
  canGoNext,
  autoSave,    \* whether the timer of autoSave is set, and whether for the values there are
  saved,       \* whether these values are what its handler was last given
  calls,       \* how many methods were called
  refusedOnce  \* the handler of submit was given values that were refused, and not edited since

wizardVars == <<stepValue, error, outdated, runs, validating, currentStep, unseen, canGoNext, autoSave,
          saved, calls, refusedOnce>>
fieldVars == <<stepValue, autoSave, saved>>
stepVars == <<currentStep, canGoNext>>
wizardFormVars == <<validating, refusedOnce>>

\* A validation: of which fields the answer is still to come, which it will refuse, and which
\* were edited since it began.
Run(kind, fields, step) ==
  [id |-> CHOOSE i \in 1..MaxRuns : \A r \in runs : r.id # i, kind |-> kind, step |-> step,
   left |-> fields, refused |-> {f \in fields : stepValue[f] = Bad}, edited |-> {}]

WizardTypeOK ==
  /\ stepValue \in [Steps -> {Good, Bad}] /\ {error, outdated} \subseteq SUBSET Steps
  /\ runs \subseteq [id : 1..MaxRuns, kind : {"field", "validate", "submit", "next"}, step : Steps,
                     left : SUBSET Steps, refused : SUBSET Steps, edited : SUBSET Steps]
  /\ {saved, canGoNext, refusedOnce} \subseteq BOOLEAN /\ currentStep \in Steps
  /\ calls \in 0..MaxCalls /\ validating \in {"no", "yes", "stuck"}
  /\ unseen \subseteq {"step", "values"} /\ autoSave \in {"none", "former", "current"}

WizardInit ==
  /\ stepValue = [f \in Steps |-> Good] /\ error = {} /\ outdated = {}
  /\ runs = {} /\ validating = "no" /\ currentStep = 1 /\ canGoNext = TRUE
  /\ unseen = {} /\ autoSave = "current" /\ saved = FALSE /\ refusedOnce = FALSE /\ calls = 0

Called == calls < MaxCalls /\ calls' = calls + 1

Starts(kind, fields) ==
  Called /\ Cardinality(runs) < MaxRuns /\ runs' = runs \cup {Run(kind, fields, currentStep)}

\* The values become others than the timer has, if it is set.
ValuesChange ==
  /\ unseen' = unseen \cup {"values"} /\ saved' = FALSE
  /\ autoSave' = IF autoSave = "none" THEN "none" ELSE "former"

\* setFieldValue, and checkField if it is to be validated on change.
setFieldValue(f, v) ==
  /\ stepValue' = [stepValue EXCEPT ![f] = v]
  /\ LET older == {[r EXCEPT !.edited = @ \cup {f}] : r \in runs}
         new == [Run("field", {f}, currentStep) EXCEPT !.refused = IF v = Bad THEN {f} ELSE {}]
     IN Called /\ Cardinality(runs) < MaxRuns /\ runs' = older \cup {new}
  /\ outdated' = outdated \cup {f}
  /\ ValuesChange
  /\ UNCHANGED <<error, stepVars, wizardFormVars>>

\* validateAll, for itself or for submit.
validateAll(kind) ==
  /\ Starts(kind, Steps) /\ validating' = "yes"
  /\ UNCHANGED <<error, outdated, unseen, fieldVars, stepVars, refusedOnce>>

next ==
  /\ Starts("next", {currentStep})
  /\ UNCHANGED <<error, outdated, unseen, fieldVars, stepVars, wizardFormVars>>

\* checkField writes its answer whatever was written or edited meanwhile.
Shows(r, f) ==
  /\ error' = IF f \in r.refused THEN error \cup {f} ELSE error \ {f}
  /\ outdated' = IF f \in r.edited THEN outdated \cup {f} ELSE outdated \ {f}
  /\ unseen' = unseen \cup {"step"}

\* Faulty variant: the checks of the step are started and not awaited.
StepIsAccepted(r) == r.step \notin error

Accepted(r) == r.refused = {}

\* An answer for one field; the last one of next goes on to the step after the one it was
\* called in, or to submit.
WizardFieldAnswer(r, f) ==
  /\ f \in r.left /\ Shows(r, f)
  /\ LET rest == [r EXCEPT !.left = @ \ {f}]
         others == runs \ {r}
         last == rest.left = {}
     IN IF ~last \/ r.kind \in {"validate", "submit"}
        THEN runs' = others \cup {rest} /\ UNCHANGED <<stepVars, wizardFormVars>>
        ELSE IF r.kind = "field" \/ ~Accepted(r)
        THEN runs' = others /\ UNCHANGED <<stepVars, wizardFormVars>>
        ELSE /\ UNCHANGED canGoNext
             /\ IF r.step + 1 \in Steps
                THEN currentStep' = r.step + 1 /\ runs' = others /\ UNCHANGED wizardFormVars
                ELSE /\ UNCHANGED currentStep /\ validating' = "yes"
                     /\ runs' = others \cup {[rest EXCEPT !.kind = "submit", !.left = Steps, !.edited = {},
                                               !.refused = {g \in Steps : stepValue[g] = Bad}]}
                     /\ UNCHANGED refusedOnce
  /\ UNCHANGED <<fieldVars, calls>>

\* A validator throws: validate and submit end there with the flag as it was, the other
\* checks go on for themselves.
FieldThrows(r, f) ==
  /\ f \in r.left
  /\ runs' = (runs \ {r}) \cup (IF r.left = {f} THEN {} ELSE {[r EXCEPT !.left = @ \ {f}, !.kind = "field"]})
  /\ validating' = IF r.kind \in {"validate", "submit"} THEN "stuck" ELSE validating
  /\ UNCHANGED <<error, outdated, unseen, fieldVars, stepVars, calls, refusedOnce>>

\* The validator of the form answers, and submit calls its handler with the values there are.
WizardFormAnswer(r, ok) ==
  /\ r.left = {} /\ runs' = runs \ {r} /\ validating' = "no"
  /\ refusedOnce' = (refusedOnce \/ (/\ r.kind = "submit" /\ ok /\ Accepted(r)
                                    /\ \E f \in Steps \ r.edited : stepValue[f] = Bad))
  /\ UNCHANGED <<error, outdated, unseen, fieldVars, stepVars, calls>>

\* It throws: like a field's, it leaves the flag as it was, and the run has nothing to go on with.
WizardFormThrows(r) ==
  /\ r.left = {} /\ runs' = runs \ {r} /\ validating' = "stuck"
  /\ UNCHANGED <<error, outdated, unseen, fieldVars, stepVars, calls, refusedOnce>>

\* previous and goToStep do not wait for anything.
goToStep(s) ==
  /\ Called /\ s # currentStep /\ currentStep' = s /\ unseen' = unseen \cup {"step"}
  /\ UNCHANGED <<error, outdated, runs, fieldVars, canGoNext, wizardFormVars>>

\* reset: what is under way will still write its errors.
resetWizard ==
  /\ Called
  /\ stepValue' = [f \in Steps |-> Good] /\ error' = {} /\ outdated' = {}
  /\ runs' = {[r EXCEPT !.edited = Steps] : r \in runs}
  /\ unseen' = {"step", "values"} /\ saved' = FALSE
  /\ autoSave' = IF autoSave = "none" THEN "none" ELSE "former"
  /\ UNCHANGED <<stepVars, wizardFormVars>>

\* Faulty variant: a timer that is set is left as it is.
TimedOnce == IF autoSave = "none" THEN "current" ELSE autoSave

Timed == "current"

\* The flush runs the effects: canGoNext, and autosave's, which sets its timer anew.
EffectsRun ==
  /\ unseen # {} /\ unseen' = {}
  /\ canGoNext' = IF "step" \in unseen THEN currentStep \notin error ELSE canGoNext
  /\ autoSave' = IF "values" \in unseen THEN Timed ELSE autoSave
  /\ UNCHANGED <<stepValue, error, outdated, runs, saved, currentStep, calls, wizardFormVars>>

AutoSaves ==
  /\ autoSave # "none" /\ saved' = (autoSave = "current") /\ autoSave' = "none"
  /\ UNCHANGED <<stepValue, error, outdated, runs, unseen, stepVars, calls, wizardFormVars>>

WizardNext ==
  \/ \E f \in Steps, v \in {Good, Bad} : setFieldValue(f, v)
  \/ \E f \in Steps : goToStep(f)
  \/ validateAll("validate") \/ validateAll("submit") \/ next \/ resetWizard
  \/ EffectsRun \/ AutoSaves
  \/ \E r \in runs : \/ \E f \in r.left : WizardFieldAnswer(r, f) \/ FieldThrows(r, f)
                     \/ /\ r.kind \in {"validate", "submit"}
                        /\ WizardFormThrows(r) \/ \E ok \in BOOLEAN : WizardFormAnswer(r, ok)

WizardSpec == WizardInit /\ [][WizardNext]_wizardVars

------------------------------------------------------------------------------
(* What is checked *)

\* The handler gets values that all validators accepted, unless they were edited between
\* the beginning of the last validation and the call.
WizardGetsCheckedValues == ~refusedOnce

\* A field shows the error of its value, unless the answer of an earlier value came last or the
\* check of this one threw or is under way.
ErrorIsOfValue ==
  \A f \in Steps : f \notin outdated => (f \in error <=> stepValue[f] = Bad)

\* canGoNext says, once the effects have run, whether the step there is has an error.
NextIsOffered == "step" \notin unseen => (canGoNext <=> currentStep \notin error)

\* What was changed last is saved, or will be: no edit is lost between a timer and the effect.
ChangesAreSaved == saved \/ autoSave = "current" \/ "values" \in unseen

\* The validating flag belongs to a validation that will clear it, as long as no validator throws.
FlagsAreBacked == validating = "yes" => \E r \in runs : r.kind \in {"validate", "submit"}
=============================================================================
