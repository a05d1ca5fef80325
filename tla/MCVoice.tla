------------------------------- MODULE MCVoice -------------------------------
(***************************************************************************)
(* The VoiceXML session's parts, side by side: collection of media, prompt *)
(* playback, and form interpretation with events.  Each is explored with   *)
(* forms and content that bring its cases about; "part" names component    *)
(* and form, and the variables of the others are not used.                 *)
(***************************************************************************)
EXTENDS Integers, Sequences, FiniteSets

CONSTANT Explored   \* the components and forms to explore

VARIABLES
    part,
    s, owner, call, provider,     \* MediaCycle
    pr_s, box, pr_call,           \* PromptMedia
    prog, fi_s, c                 \* VoiceFia

mediaVars == <<s, owner, call, provider>>
promptVars == <<pr_s, box, pr_call>>
fiaVars == <<prog, fi_s, c>>
vars == <<part, mediaVars, promptVars, fiaVars>>

Unused == 0

-----------------------------------------------------------------------------
(* Media: fields, utterances, recordings, and all three channels at once.  *)

Threads == {"p1", "p2"}

Field == INSTANCE MediaCycle WITH
           Kind <- <<"FIELD", "FIELD">>, Producers <- Threads,
           Incompatible <- {"FIELD"}, MaxGeneration <- 2, MaxLeases <- 0
Menu == INSTANCE MediaCycle WITH
           Kind <- <<"MENU">>, Producers <- Threads,
           Incompatible <- {}, MaxGeneration <- 2, MaxLeases <- 0
Utterance == INSTANCE MediaCycle WITH
           Kind <- <<"UTTERANCE", "UTTERANCE">>, Producers <- Threads,
           Incompatible <- {}, MaxGeneration <- 2, MaxLeases <- 2
Record == INSTANCE MediaCycle WITH
           Kind <- <<"RECORD", "RECORD">>, Producers <- Threads,
           Incompatible <- {}, MaxGeneration <- 2, MaxLeases <- 2
Mixed == INSTANCE MediaCycle WITH
           Kind <- <<"UTTERANCE", "RECORD", "TRANSFER">>, Producers <- Threads,
           Incompatible <- {}, MaxGeneration <- 1, MaxLeases <- 1

-----------------------------------------------------------------------------
(* Prompts: a plain one, one for the second try, one whose condition a     *)
(* handler can change; played by the driver or by hand.  Two threads       *)
(* report completions; "driver_single" has one, and marks and a clock.     *)

Prompt(count, condition, bargein, marks, foreach) ==
    [count |-> count, condition |-> condition, bargein |-> bargein, marks |-> marks,
     foreach |-> foreach]

Driver == INSTANCE PromptMedia WITH
            Rows <- <<<<Prompt(1, TRUE, TRUE, 1, FALSE), Prompt(1, FALSE, FALSE, 1, FALSE)>>,
                      <<Prompt(1, TRUE, TRUE, 1, TRUE)>>>>,
            Producers <- Threads, Host <- {"DRIVER", "RAISE", "BARGE", "MARK"},
            Backend <- TRUE, MaxGeneration <- 2, MaxPlaybacks <- 2, MaxRetries <- 0,
            MaxElapsed <- 0,
            s <- pr_s, call <- pr_call
Single == INSTANCE PromptMedia WITH
            Rows <- <<<<Prompt(1, TRUE, TRUE, 2, FALSE), Prompt(1, FALSE, FALSE, 1, FALSE)>>,
                      <<Prompt(1, TRUE, TRUE, 1, TRUE)>>>>,
            Producers <- {"p1"}, Host <- {"DRIVER", "RAISE", "BARGE", "MARK"},
            Backend <- TRUE, MaxGeneration <- 2, MaxPlaybacks <- 2, MaxRetries <- 0,
            MaxElapsed <- 1,
            s <- pr_s, call <- pr_call
Manual == INSTANCE PromptMedia WITH
            Rows <- <<<<Prompt(1, FALSE, TRUE, 1, TRUE), Prompt(2, FALSE, FALSE, 1, FALSE)>>>>,
            Producers <- Threads, Host <- {"MANUAL", "NOINPUT", "BARGE"},
            Backend <- FALSE, MaxGeneration <- 2, MaxPlaybacks <- 2, MaxRetries <- 1,
            MaxElapsed <- 0,
            s <- pr_s, call <- pr_call

-----------------------------------------------------------------------------
(* Executable content for VoiceFia.                                        *)

Act(kind) == [kind |-> kind]
AssignTo(slot) == [kind |-> "ASSIGN", slot |-> slot, value |-> "DEFINED", direct |-> TRUE]
Undefine(slot) == [kind |-> "ASSIGN", slot |-> slot, value |-> "UNDEFINED", direct |-> TRUE]
AssignPart(slot) == [kind |-> "ASSIGN", slot |-> slot, value |-> "DEFINED", direct |-> FALSE]
ClearOf(slots) == [kind |-> "CLEAR", slots |-> slots]
Throw(event) == [kind |-> "THROW", event |-> event]
SubmitOf(slots) == [kind |-> "SUBMIT", slots |-> slots]
ReturnOf(slots) == [kind |-> "RETURN", slots |-> slots]
If(then, else) == [kind |-> "IF", then |-> then, else |-> else]

Form == <<1, 0>>          \* FormScope
Document == <<2, 0>>      \* DocumentScope
Catch(scope, event, count) == [scope |-> scope, event |-> event, count |-> count]
Filling(mode, field, targets) == [mode |-> mode, field |-> field, targets |-> targets]
Error == <<"error">>
SemanticError == <<"error", "semantic">>
NoInput == <<"noinput">>
Retry == <<"retry">>
Answers == {"TRUE", "FALSE", "EVENT"}

(* Two blocks, with a catch in form and document.                          *)
BlockForm == <<"BLOCK", "BLOCK">>
BlockHandlers == <<Catch(Form, Error, 1), Catch(Document, Error, 1)>>
BlockContent ==
    {<<Act("SCRIPT"), AssignTo(0)>>,
     <<Act("VAR"), If(<<Act("EXIT")>>, <<AssignPart(2)>>)>>,
     <<Act("VAR"), SubmitOf({0}), AssignPart(2)>>,
     <<Undefine(0), Act("GOTO")>>,
     <<If(<<If(<<If(<<Act("SCRIPT")>>, <<>>)>>, <<>>)>>, <<Act("DISCONNECT")>>)>>,
     <<ReturnOf({0})>>}
BlockCatch ==
    {<<>>, <<ClearOf({1, 2})>>, <<Act("SCRIPT"), Act("RETHROW")>>, <<Throw(Retry)>>,
     <<ClearOf({0}), Act("EXIT")>>}

Blocks == INSTANCE VoiceFia WITH
            Kind <- BlockForm, Conditional <- {1}, ItemExpr <- {1},
            Scripts <- <<"DOCUMENT", "FORM">>, Handler <- BlockHandlers, Filled <- <<>>,
            BlockBodies <- BlockContent, FilledBodies <- {}, HandlerBodies <- BlockCatch,
            Writable <- TRUE, Outcomes <- {"TRUE", "FALSE", "EVENT", "STATUS"}, Events <- {},
            MaxSteps <- 5, MaxDepth <- 3, MaxFrames <- 3, MaxCounters <- 2, MaxCount <- 2,
            s <- fi_s
\* The same form, interpreted without an expression backend.
Native == INSTANCE VoiceFia WITH
            Kind <- BlockForm, Conditional <- {1}, ItemExpr <- {1},
            Scripts <- <<"DOCUMENT", "FORM">>, Handler <- BlockHandlers, Filled <- <<>>,
            BlockBodies <- BlockContent, FilledBodies <- {}, HandlerBodies <- BlockCatch,
            Writable <- FALSE, Outcomes <- {"TRUE", "FALSE", "EVENT", "STATUS"}, Events <- {},
            MaxSteps <- 6, MaxDepth <- 3, MaxFrames <- 3, MaxCounters <- 2, MaxCount <- 2,
            s <- fi_s

(* An initial and two fields, with counted noinput handlers.               *)
FieldHandlers == <<Catch(<<0, 2>>, NoInput, 1), Catch(<<0, 2>>, NoInput, 2),
                   Catch(Form, Error, 1), Catch(Form, NoInput, 1)>>
FieldContent == {<<ClearOf({2}), Act("SCRIPT")>>,
                 <<AssignTo(0), If(<<Act("EXIT")>>, <<Act("GOTO")>>)>>}
FieldCatch == {<<ClearOf({1, 2, 3}), Act("REPROMPT"), Act("SCRIPT")>>, <<Act("RETHROW")>>}

Fields == INSTANCE VoiceFia WITH
            Kind <- <<"INITIAL", "FIELD", "FIELD">>, Conditional <- {1}, ItemExpr <- {},
            Scripts <- <<>>, Handler <- FieldHandlers,
            Filled <- <<Filling("FIELD", 2, {}), Filling("ANY", 0, {3}), Filling("ALL", 0, {2, 3})>>,
            BlockBodies <- {}, FilledBodies <- FieldContent, HandlerBodies <- FieldCatch,
            Writable <- TRUE, Outcomes <- Answers, Events <- {},
            MaxSteps <- 7, MaxDepth <- 3, MaxFrames <- 3, MaxCounters <- 4, MaxCount <- 2,
            s <- fi_s

(* The other items, with their own filled.                                 *)
MediaContent == {<<>>, <<ClearOf({1, 2}), Act("SCRIPT")>>}
MediaCatch == {<<>>, <<ClearOf({2}), Act("RETHROW")>>}

Media == INSTANCE VoiceFia WITH
            Kind <- <<"RECORD", "TRANSFER", "SUBDIALOG">>, Conditional <- {1}, ItemExpr <- {},
            Scripts <- <<>>,
            Handler <- <<Catch(<<0, 2>>, Error, 1), Catch(<<0, 3>>, Error, 1), Catch(Form, Error, 1)>>,
            Filled <- <<Filling("FIELD", 1, {}), Filling("FIELD", 2, {}), Filling("FIELD", 3, {}),
                        Filling("ANY", 0, {2, 3})>>,
            BlockBodies <- {}, FilledBodies <- MediaContent, HandlerBodies <- MediaCatch,
            Writable <- TRUE, Outcomes <- Answers, Events <- {},
            MaxSteps <- 5, MaxDepth <- 3, MaxFrames <- 3, MaxCounters <- 6, MaxCount <- 2,
            s <- fi_s

(* Handlers that compete by prefix, count and order.                       *)
Rivals == INSTANCE VoiceFia WITH
            Kind <- <<"FIELD">>, Conditional <- {}, ItemExpr <- {}, Scripts <- <<>>,
            Handler <- <<Catch(<<0, 1>>, Error, 2), Catch(<<0, 1>>, SemanticError, 2),
                         Catch(<<0, 1>>, SemanticError, 1), Catch(<<0, 1>>, SemanticError, 2),
                         Catch(Form, Error, 3), Catch(Form, Error, 1), Catch(Document, Retry, 1)>>,
            Filled <- <<Filling("FIELD", 1, {})>>,
            BlockBodies <- {}, FilledBodies <- {<<Act("SCRIPT")>>},
            HandlerBodies <- {<<Throw(Retry)>>, <<Act("SCRIPT"), Act("RETHROW")>>},
            Writable <- TRUE, Outcomes <- Answers,
            Events <- {SemanticError, <<"error", "noresource">>},
            MaxSteps <- 8, MaxDepth <- 3, MaxFrames <- 3, MaxCounters <- 10, MaxCount <- 2,
            s <- fi_s

ASSUME VoiceAssumption ==
    /\ Field!MediaAssumption /\ Menu!MediaAssumption /\ Utterance!MediaAssumption
    /\ Record!MediaAssumption /\ Mixed!MediaAssumption
    /\ Driver!PromptAssumption /\ Manual!PromptAssumption
    /\ Blocks!FiaAssumption /\ Native!FiaAssumption /\ Fields!FiaAssumption
    /\ Media!FiaAssumption /\ Rivals!FiaAssumption

-----------------------------------------------------------------------------
FiaParts == {"blocks", "native", "fields", "media", "rivals"}

Init ==
    /\ part \in Explored
    /\ CASE part = "field" -> Field!Init
         [] part = "menu" -> Menu!Init
         [] part = "utterance" -> Utterance!Init
         [] part = "record" -> Record!Init
         [] OTHER -> Mixed!Init
    /\ CASE part = "manual" -> Manual!Init
         [] part = "driver_single" -> Single!Init
         [] OTHER -> Driver!Init
    /\ CASE part = "blocks" -> Blocks!Init
         [] part = "native" -> Native!Init
         [] part = "fields" -> Fields!Init
         [] part = "media" -> Media!Init
         [] part = "rivals" -> Rivals!Init
         [] OTHER -> prog = Unused /\ fi_s = Unused /\ c = [at |-> "IDLE"]

Next ==
    \/ /\ \/ part = "field" /\ Field!Next
          \/ part = "menu" /\ Menu!Next
          \/ part = "utterance" /\ Utterance!Next
          \/ part = "record" /\ Record!Next
          \/ part = "mixed" /\ Mixed!Next
       /\ UNCHANGED <<part, promptVars, fiaVars>>
    \/ /\ \/ part = "driver" /\ Driver!Next
          \/ part = "driver_single" /\ Single!Next
          \/ part = "manual" /\ Manual!Next
       /\ UNCHANGED <<part, mediaVars, fiaVars>>
    \/ /\ \/ part = "blocks" /\ Blocks!Next
          \/ part = "native" /\ Native!Next
          \/ part = "fields" /\ Fields!Next
          \/ part = "media" /\ Media!Next
          \/ part = "rivals" /\ Rivals!Next
       /\ UNCHANGED <<part, mediaVars, promptVars>>

Spec == Init /\ [][Next]_vars

-----------------------------------------------------------------------------
(* The properties of the components, each for its own behaviours.          *)

\* Every recording and every generation has one owner and one end (MediaCycle);
\* and a field whose completion is late or does not fit can still be completed.
MediaSound ==
    /\ part = "field" => Field!MediaSound /\ Field!StaysArmed
    /\ part = "menu" => Menu!MediaSound
    /\ part = "utterance" => Utterance!MediaSound
    /\ part = "record" => Record!MediaSound
    /\ part = "mixed" => Mixed!MediaSound

\* A prompt is played by the policy it was selected with, its effects are
\* published once, and a completion settles its own playback when one thread
\* reports them all (PromptMedia).
PromptSound ==
    /\ part = "driver" => Driver!PromptSound
    /\ part = "driver_single" => Single!PromptSound /\ Single!AcceptedIsCurrent
    /\ part = "manual" => Manual!PromptSound

\* The same of several threads: "MPSC admission of one generation-scoped prompt
\* playback completion" (cmeta.h, vxml_session_cmeta_prompt_media_try_complete).
CompletionSettlesItsPlayback == part = "driver" => Driver!AcceptedIsCurrent

\* Nothing runs after a transfer, nothing staged survives a failure, and the
\* right handler answers (VoiceFia).
FiaSound ==
    /\ part = "blocks" => Blocks!FiaSound
    /\ part = "native" => Native!FiaSound
    /\ part = "fields" => Fields!FiaSound
    /\ part = "media" => Media!FiaSound
    /\ part = "rivals" => Rivals!FiaSound

\* Threads in the middle of a call go on, and the owner keeps driving.
MediaFair ==
    /\ WF_mediaVars(part = "mixed" /\ Mixed!run_ready)
    /\ WF_mediaVars(part = "mixed" /\ Mixed!quiesce_generation)
    /\ WF_mediaVars(part = "mixed" /\ Mixed!apply)
    /\ WF_mediaVars(part = "mixed" /\ Mixed!session_data_destroy)
    /\ \A p \in Threads, kind \in Mixed!AllKinds :
         WF_mediaVars(part = "mixed" /\ Mixed!Steps(p, kind))

FiaFair ==
    /\ WF_fiaVars(part = "blocks" /\ Blocks!Inside)
    /\ WF_fiaVars(part = "media" /\ Media!Inside)

\* An accepted completion is consumed, and every call of the session returns:
\* catches that retry are bounded by steps, chained events by depth; and a retry
\* counter goes back to zero only with the commit that cleared or filled its item.
VoiceProgress ==
    /\ part = "mixed" /\ MediaFair => Mixed!CompletionConsumed
    /\ part \in {"blocks", "media"} /\ FiaFair => Blocks!CallReturns
    /\ [][(part \in FiaParts) => Fields!RetriesForgottenByCommit]_vars
=============================================================================
