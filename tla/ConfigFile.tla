----------------------------- MODULE ConfigFile -----------------------------
(* The configuration of the injector on its way from the device to the       *)
(* filter: hdfury_virtex2_ini_generator.py asks the device for the metadata  *)
(* of what it shows, decodes it and rewrites an .ini file, every few seconds;*)
(* the filter's constructor (LoadConfig) reads that file, one key after the  *)
(* other, each by a call that opens the file anew.  Nothing synchronises the *)
(* two.                                                                      *)
(*                                                                           *)
(* A value is the number of the device's state it was decoded from: 0 is     *)
(* what a user wrote by hand, from example_config.ini.  Keys that are read   *)
(* one after the other, by the same function, and written from the same half *)
(* of the device's reply are one key here.                                   *)
EXTENDS Integers, Sequences

CONSTANTS
  MaxVersion,  \* the device changes this many times less one
  Missing,     \* no such key in the file, or no such file
  Default,     \* the default LoadConfig names in its call
  Zero         \* the value 0, which LoadConfig never names

ASSUME ValuesDistinct ==
  /\ MaxVersion \in Nat \ {0}
  /\ Missing \notin Int /\ Default \notin Int /\ Zero \notin Int
  /\ Missing # Default /\ Missing # Zero /\ Default # Zero

(* The keys in the order of LoadConfig, and those the generator writes, in   *)
(* its order: of the two halves of the reply, AVI comes first.               *)
LoadOrder == << "display_primary", "mastering_luminance", "luminance_max",
                "interlace_flags", "aspect_ratio", "transfer_matrix",
                "primaries", "nominal_range" >>
WriteOrder == << "nominal_range", "aspect_ratio", "mastering_luminance",
                 "luminance_max", "display_primary", "primaries" >>

Keys == {LoadOrder[i] : i \in 1 .. Len(LoadOrder)}
AviKeys == {"nominal_range", "aspect_ratio"}
HdrKeys == {WriteOrder[i] : i \in 1 .. Len(WriteOrder)} \ AviKeys

(* Read by GetPrivateProfileDouble; the others by GetPrivateProfileInt.      *)
DoubleKeys == {"display_primary", "mastering_luminance"}

(* example_config.ini has all keys but this one, whose name it misspells.    *)
ExampleKeys == Keys \ {"mastering_luminance"}

VARIABLES
  device,       \* what the device would reply: its version, and its halves
  once,         \* the generator was started with --once
  doing,        \* where the generator is; "ended" when it does not run
  reply,        \* data, the last reply of the device
  output,       \* output, the keys decoded so far
  file,         \* the .ini file, as a reader that opens it finds it
  interrupted,  \* auxiliary: the last rewriting of the file was cut short
  next,         \* the filter's next key in LoadOrder; 0 while there is no filter
  config        \* the filter's members, Missing before LoadConfig has set them

fileVars == << device, once, doing, reply, output, file, interrupted, next, config >>

Versions == 0 .. MaxVersion
Half == {"absent", "good", "bad"}  \* bad: not decodable, or of an unknown code
Replies == [version : Versions, avi : Half, hdr : Half]
Contents == [Keys -> Versions \cup {Missing}]
Nothing == [k \in Keys |-> Missing]

FileTypeOK ==
  /\ device \in Replies
  /\ once \in BOOLEAN
  /\ doing \in {"fetch", "decode", "open", "write", "sleep", "ended"}
  /\ reply \in Replies
  /\ output \in Contents
  /\ file \in Contents
  /\ interrupted \in BOOLEAN
  /\ next \in 0 .. Len(LoadOrder) + 1
  /\ config \in [Keys -> Versions \cup {Missing, Default, Zero}]
  /\ \A i \in 1 .. Len(LoadOrder) :
       config[LoadOrder[i]] \in IF i < next THEN Versions \cup {Default, Zero}
                                            ELSE {Missing}

FileInit ==
  /\ device \in [version : {1}, avi : Half, hdr : Half]
  /\ once = FALSE
  /\ doing = "ended"
  /\ reply = device
  /\ output = Nothing
  /\ file \in {Nothing, [k \in Keys |-> IF k \in ExampleKeys THEN 0 ELSE Missing]}
  /\ interrupted = FALSE
  /\ next = 0
  /\ config = Nothing

-----------------------------------------------------------------------------
(* The device and the user.                                                  *)

(* Another film starts, or a menu is shown.                                  *)
Change ==
  /\ device.version < MaxVersion
  /\ device' \in [version : {device.version + 1}, avi : Half, hdr : Half]
  /\ UNCHANGED << once, doing, reply, output, file, interrupted, next, config >>

Start ==
  /\ doing = "ended"
  /\ once' \in BOOLEAN
  /\ doing' = "fetch"
  /\ UNCHANGED << device, reply, output, file, interrupted, next, config >>

-----------------------------------------------------------------------------
(* The generator.                                                            *)

(* The keys a reply gives; the others stay as they are.                      *)
Filled(out, r) ==
  [k \in Keys |-> IF \/ k \in AviKeys /\ r.avi = "good"
                     \/ k \in HdrKeys /\ r.hdr = "good"
                  THEN r.version ELSE out[k]]

(* Fault: the keys of the round before are kept.                            *)
FetchKeepsOutput ==
  /\ doing = "fetch"
  /\ reply' = device
  /\ doing' = "decode"
  /\ UNCHANGED << device, once, output, file, interrupted, next, config >>

Fetch ==
  /\ doing = "fetch"
  /\ output' = Nothing
  /\ reply' = device
  /\ doing' = "decode"
  /\ UNCHANGED << device, once, file, interrupted, next, config >>

(* A half that is absent is passed over; a bad one raises.                   *)
Decode ==
  /\ doing = "decode"
  /\ reply.avi # "bad" /\ reply.hdr # "bad"
  /\ output' = Filled(output, reply)
  /\ doing' = "open"
  /\ UNCHANGED << device, once, reply, file, interrupted, next, config >>

(* Fault: the file is open, and so empty, while the reply is decoded.        *)
DecodeRaisesOpen ==
  /\ doing = "decode"
  /\ reply.avi = "bad" \/ reply.hdr = "bad"
  /\ file' = Nothing
  /\ doing' = "ended"
  /\ UNCHANGED << device, once, reply, output, interrupted, next, config >>

DecodeRaises ==
  /\ doing = "decode"
  /\ reply.avi = "bad" \/ reply.hdr = "bad"
  /\ doing' = "ended"
  /\ UNCHANGED << device, once, reply, output, file, interrupted, next, config >>

(* write_ini: opening the file empties it; the few lines are in the buffer   *)
(* of the file until it is closed.                                           *)
OpenFile ==
  /\ doing = "open"
  /\ file' = Nothing
  /\ doing' = "write"
  /\ UNCHANGED << device, once, reply, output, interrupted, next, config >>

CloseFile ==
  /\ doing = "write"
  /\ file' = output
  /\ interrupted' = FALSE
  /\ doing' = IF once THEN "ended" ELSE "sleep"
  /\ UNCHANGED << device, once, reply, output, next, config >>

(* Fault: the request is made once, before the loop.                         *)
SleepNoFetch ==
  /\ doing = "sleep"
  /\ doing' = "decode"
  /\ UNCHANGED << device, once, reply, output, file, interrupted, next, config >>

Sleep ==
  /\ doing = "sleep"
  /\ doing' = "fetch"
  /\ UNCHANGED << device, once, reply, output, file, interrupted, next, config >>

(* Outside write_ini: a request that fails, a file that cannot be opened or  *)
(* Ctrl-C ends the program.                                                  *)
Quit ==
  /\ doing \in {"fetch", "decode", "open", "sleep"}
  /\ doing' = "ended"
  /\ UNCHANGED << device, once, reply, output, file, interrupted, next, config >>

(* Ctrl-C in write_ini: the lines written so far are in the file when the    *)
(* with statement, or the end of the process, has closed it.                 *)
Interrupt ==
  /\ doing = "write"
  /\ \E n \in 0 .. Len(WriteOrder) - 1 :
       file' = [k \in Keys |-> IF \E i \in 1 .. n : WriteOrder[i] = k
                               THEN output[k] ELSE Missing]
  /\ interrupted' = TRUE
  /\ doing' = "ended"
  /\ UNCHANGED << device, once, reply, output, next, config >>

-----------------------------------------------------------------------------
(* The filter.                                                               *)

(* Fault: the answer of the file, without a default.                         *)
NoDefault(k) == file[k]

(* GetPrivateProfileDouble has a parameter default and does not use it: it   *)
(* asks for the string with "0" in its place.                                *)
GetPrivateProfile(k) ==
  IF file[k] # Missing THEN file[k]
  ELSE IF k \in DoubleKeys THEN Zero ELSE Default

(* The constructor calls LoadConfig, and nothing else does.                  *)
LoadConfig ==
  /\ next = 0
  /\ next' = 1
  /\ UNCHANGED << device, once, doing, reply, output, file, interrupted, config >>

ReadKey ==
  /\ next \in 1 .. Len(LoadOrder)
  /\ config' = [config EXCEPT ![LoadOrder[next]] = GetPrivateProfile(LoadOrder[next])]
  /\ next' = next + 1
  /\ UNCHANGED << device, once, doing, reply, output, file, interrupted >>

(* The player drops the filter with its graph, to build it anew.             *)
ReleaseFilter ==
  /\ next > Len(LoadOrder)
  /\ next' = 0
  /\ config' = Nothing
  /\ UNCHANGED << device, once, doing, reply, output, file, interrupted >>

-----------------------------------------------------------------------------
Generator == Fetch \/ Decode \/ DecodeRaises \/ OpenFile \/ CloseFile \/ Sleep
Filter == LoadConfig \/ ReadKey \/ ReleaseFilter

FileNext == Change \/ Start \/ Generator \/ Quit \/ Interrupt \/ Filter

FileSpec == FileInit /\ [][FileNext]_fileVars

(* The loop of the generator goes on while the program runs: a request and   *)
(* the sleep return.  Nothing is assumed of the device, the user, the filter.*)
FairFileSpec == FileSpec /\ WF_fileVars(Generator)

-----------------------------------------------------------------------------
(* Properties.                                                               *)

(* All values in the file come from one reply of the device, never from two: *)
(* output starts empty in each round of the loop, and the file is written    *)
(* anew.  Unless a rewriting has been cut short, a half of the reply is in   *)
(* the file with all of its keys or with none.                               *)
FileIsOneReply ==
  /\ \A k, l \in Keys : file[k] # Missing => file[l] \in {file[k], Missing}
  /\ ~interrupted =>
       \A half \in {AviKeys, HdrKeys} :
         (\E k \in half : file[k] \in Versions \ {0}) =>
           \A l \in half : file[l] \in Versions \ {0}

(* A reply that cannot be decoded leaves the file of the last good one: the  *)
(* file is opened, and so emptied, when all has been decoded.                *)
BadReplyKeepsFile ==
  [][file' # file => reply.avi # "bad" /\ reply.hdr # "bad"]_fileVars

(* A load may mix the values of several replies, but it never goes back: a   *)
(* key read later is of no older reply than one read before it.              *)
LoadGoesForward ==
  \A i, j \in 1 .. Len(LoadOrder) :
    LET v == config[LoadOrder[i]]
        w == config[LoadOrder[j]]
    IN i < j /\ v \in Versions /\ w \in Versions => v <= w

(* Both ends of the file: the generator never mixes replies in it, and the   *)
(* filter never reads it backwards.                                          *)
RepliesInOrder == FileIsOneReply /\ LoadGoesForward

(* When the device changes no more, the file comes to say what it shows, or  *)
(* the generator ends: the loop asks again and again.                        *)
FileCatchesUp ==
  (device.version = MaxVersion /\ doing # "ended")
    ~> (doing = "ended" \/ file = Filled(Nothing, device))

(* "Defaults are P3-D65" (metadata_injector_filter.cpp:205): what a member   *)
(* holds after LoadConfig is a value of the file or the default named there. *)
(* The code gives 0 for a real number that is missing.                       *)
MissingIsDefault == \A k \in Keys : config[k] # Zero

=============================================================================
