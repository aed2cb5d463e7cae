----------------------------- MODULE HubPrograms -----------------------------
(***************************************************************************)
(* The sample programs for a hub, of which one is run at a time: HubSample *)
(* and, as instances, the others.                                          *)
(***************************************************************************)
EXTENDS HubSample

CONSTANT MaxFrames

VARIABLES
  program,                                                  \* the program that is run
  wanted, hub, lidars, gaveUp,                              \* LdsHub
  coded, main, infos, finished, packets, header, frames     \* HubRecorder

Lds == INSTANCE LdsHub
Recorder == INSTANCE HubRecorder

ldsVars == <<wanted, hub, lidars, gaveUp>>
recorderOnly == <<coded, main, infos, finished, packets, header, frames>>
vars == <<program, hubVars, ldsVars, devices, recorderOnly>>

NoLds ==
  /\ wanted = FALSE /\ hub = [state |-> "Off", work |-> "Init", bits |-> {}]
  /\ lidars = {} /\ gaveUp = {}
NoRecorder ==
  /\ coded = FALSE /\ main = "starting" /\ infos = Recorder!NoInfos /\ finished = FALSE
  /\ packets = FALSE /\ header = Recorder!NoInfos /\ frames = 0

ProgramsInit ==
  \/ program = "lds_hub" /\ Lds!Init /\ Init /\ NoRecorder
  \/ program = "sample" /\ NoLds /\ Init /\ NoRecorder
  \/ program = "recorder" /\ NoLds /\ Recorder!Init

Runs(p) == program = p /\ UNCHANGED program
NotLds == UNCHANGED <<devices, recorderOnly>>
NotSample == UNCHANGED <<ldsVars, recorderOnly>>
NotRecorder == UNCHANGED ldsVars

ProgramsNext ==
  \/ Runs("lds_hub") /\ Lds!Next /\ NotLds
  \/ Runs("sample") /\ Next /\ NotSample
  \/ Runs("recorder") /\ Recorder!Next /\ NotRecorder

(* The recorder's hub keeps answering. *)
ProgramsSpec ==
  /\ ProgramsInit /\ [][ProgramsNext]_vars
  /\ WF_vars(Runs("recorder") /\ Recorder!Served /\ NotRecorder)

(***************************************************************************)
(* The properties of the modules, for the program that runs.  UnitsTold is *)
(* about the session of any of them, SamplingIsTrue of HubSample about the *)
(* state that the recorder keeps, too; to the data source, which has one   *)
(* of its own, it does not apply.                                          *)
(***************************************************************************)

(* LdsHub: what is awaited has been asked for. *)
HubBitIsAsked == program = "lds_hub" => Lds!HubBitIsAsked

(* HubRecorder: the recorder does not wait for ever. *)
RecordingStarts ==
  (program = "recorder" /\ Recorder!Waits /\ Recorder!Undisturbed)
    ~> (main # "waiting" \/ ~Recorder!Undisturbed)
=============================================================================
