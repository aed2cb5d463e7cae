---------------------------- MODULE LidarPrograms ----------------------------
(***************************************************************************)
(* The sample programs for LiDARs, of which one is run at a time: LdsLidar *)
(* and, as instances, the others.  Those that talk to the SDK share the    *)
(* variables of SdkEvents; LvxFile and Synchro, two parts of them without  *)
(* a device, run alone.                                                    *)
(***************************************************************************)
EXTENDS LdsLidar

CONSTANTS MaxSentences, CommandLines, MaxFrames, FileFrames,
          WriteBufferLen, MaxDevices, PacketTypes, MaxPackets,
          BufLen, BodyLen, NoiseSizes

VARIABLES
  program,  \* the program that is run
  listener, sentences,                                             \* UtcSync
  devices, codes, fromXml, arrived, main, next, registered,
  infos, finished, packets, header, frames,                        \* LidarSample, LvxRecorder
  file, described, written, offset, chain,                         \* LvxFile
  port, quit, thread, held, len, due, intact, missed               \* Synchro

Sample == INSTANCE LidarSample
Recorder == INSTANCE LvxRecorder
Utc == INSTANCE UtcSync
Lvx == INSTANCE LvxFile
Sync == INSTANCE Synchro

(* Synchro's buffer is made for a sentence. *)
ASSUME SynchroAssumption ==
  /\ BufLen \in Nat /\ BodyLen \in Nat \ {0} /\ NoiseSizes \subseteq Nat
  /\ Sync!SentenceLen <= BufLen

(* The recorder's list of codes is finite. *)
ASSUME CommandLinesAssumption == \A line \in CommandLines : IsFiniteSet(line.codes)

(* The devices send the types of data that lvx_file.cpp knows. *)
ASSUME PacketTypesAssumption == PacketTypes \subseteq DOMAIN Lvx!PointNum

utcOnly == <<listener, sentences>>
recorderOnly ==
  <<codes, fromXml, arrived, main, next, registered, infos, finished, packets, header, frames>>
fileVars == <<file, described, written, offset, chain>>
synchroVars == <<port, quit, thread, held, len, due, intact, missed>>
alone == <<fileVars, synchroVars>>
vars == <<program, sdkVars, lidars, whitelist, utcOnly, devices, recorderOnly, alone>>

NoLds == lidars = [h \in Handles |-> Unconnected] /\ whitelist = {}
NoUtc == listener = "off" /\ sentences = 0
NoRecorder ==
  /\ codes = {} /\ fromXml = FALSE /\ arrived = <<>> /\ main = "starting" /\ next = 1
  /\ registered = {} /\ infos = <<>> /\ finished = FALSE /\ packets = FALSE
  /\ header = <<>> /\ frames = 0
NoSynchro ==
  /\ port = FALSE /\ quit = FALSE /\ thread = FALSE /\ held = "nothing" /\ len = 0
  /\ due = "head" /\ intact = FALSE /\ missed = 0

ProgramsInit ==
  \/ program = "lds_lidar" /\ Init /\ NoUtc /\ Sample!Init /\ NoRecorder /\ Lvx!Init /\ NoSynchro
  \/ program = "sample" /\ NoLds /\ NoUtc /\ Sample!Init /\ NoRecorder /\ Lvx!Init /\ NoSynchro
  \/ program = "recorder" /\ NoLds /\ NoUtc /\ Recorder!Init /\ Lvx!Init /\ NoSynchro
  \/ program = "utc_sync" /\ Utc!Init /\ Sample!Init /\ NoRecorder /\ Lvx!Init /\ NoSynchro
  \/ program = "lvx_file" /\ NoLds /\ NoUtc /\ Sample!Init /\ NoRecorder /\ Lvx!Init /\ NoSynchro
  \/ program = "synchro" /\ NoLds /\ NoUtc /\ Sample!Init /\ NoRecorder /\ Lvx!Init /\ Sync!Init

Runs(p) == program = p /\ UNCHANGED program
NotLds == UNCHANGED <<utcOnly, devices, recorderOnly, alone>>
NotSample == UNCHANGED <<lidars, whitelist, utcOnly, recorderOnly, alone>>
NotRecorder == UNCHANGED <<lidars, whitelist, utcOnly, alone>>
NotUtc == UNCHANGED <<devices, recorderOnly, alone>>
NotSdk == UNCHANGED <<sdkVars, lidars, whitelist, utcOnly, devices, recorderOnly>>

ProgramsNext ==
  \/ Runs("lds_lidar") /\ Next /\ NotLds
  \/ Runs("sample") /\ Sample!Next /\ NotSample
  \/ Runs("recorder") /\ Recorder!Next /\ NotRecorder
  \/ Runs("utc_sync") /\ Utc!Next /\ NotUtc
  \/ Runs("lvx_file") /\ Lvx!Next /\ NotSdk /\ UNCHANGED synchroVars
  \/ Runs("synchro") /\ Sync!Next /\ NotSdk /\ UNCHANGED fileVars

(* The devices of the program that runs keep answering. *)
ProgramsSpec ==
  /\ ProgramsInit /\ [][ProgramsNext]_vars
  /\ WF_vars(Runs("lds_lidar") /\ Served /\ NotLds)
  /\ WF_vars(Runs("sample") /\ Sample!Served /\ NotSample)
  /\ WF_vars(Runs("recorder") /\ Recorder!Served /\ NotRecorder)

(***************************************************************************)
(* The properties of the modules, for the program that runs.  Those of     *)
(* LdsLidar say nothing of another program, which leaves its variables at  *)
(* rest or, as UtcSync does, has no device in the states they are about.   *)
(***************************************************************************)

(* LidarSample: a device in sampling state samples, or will tell. *)
SampleStateIsTrue == program = "sample" => Sample!SamplingIsTrue

(* LdsLidar, LidarSample: a device that can sample comes to do so. *)
MustSample(h) ==
  phase = "running" /\ Ready(h)
    /\ (program = "sample" \/ (program = "lds_lidar" /\ Wanted(h)))
EveryDeviceSamples ==
  \A h \in Handles : MustSample(h) ~> (sampling[h] \/ ~Ready(h) \/ Troubled)

(* LvxRecorder: the header describes every registered device, once. *)
HeaderComplete == program = "recorder" => Recorder!HeaderComplete

(* LvxRecorder: the recorder does not wait for ever. *)
RecordingStarts ==
  (program = "recorder" /\ Recorder!Waits /\ Recorder!Undisturbed)
    ~> (main # "waiting" \/ ~Recorder!Undisturbed)

(* LvxFile: the offsets in the frames lead from one to the next. *)
FramesChain == program = "lvx_file" => Lvx!FramesChain

(* UtcSync: a sentence goes to every device that can use it, and to none   *)
(* when the SDK is taken down.                                             *)
TimeReachesAll == program = "utc_sync" => Utc!TimeReachesAll

(* Synchro: a disturbance costs a bounded number of intact sentences. *)
LossBounded == program = "synchro" => Sync!LossBounded
=============================================================================
