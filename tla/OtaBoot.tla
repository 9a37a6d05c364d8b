------------------------------ MODULE OtaBoot ------------------------------
(***************************************************************************)
(* Over-the-air update and boot.  The flash has two image areas and a      *)
(* configuration that names the verified one.  The application downloads   *)
(* an image into the area it does not run from, checks its sections and    *)
(* sets the configuration.  After a reset the bootloader reads the         *)
(* configuration, unpacks a compressed image into area 0 if it has to, and *)
(* loads the application section of the area named, or of the other one.   *)
(*                                                                         *)
(* Power may go between any two steps.  The configuration is an FDCM area: *)
(* what a cut write leaves in it is what RecordStore allows.               *)
(***************************************************************************)
EXTENDS Naturals

CONSTANTS
  Policies,  \* the OTA policies of the builds: "pingpong", "xz"
  Faults,    \* "boot": the bootloader cannot read, erase or write the flash, or
             \* has no memory; the flash errors "appread" and "cfgwrite";
             \* "stream": an image that was checked does not unpack; "again":
             \* an update after one that is not yet booted
  MaxVer     \* bound: the images downloaded

ASSUME OtaAssumption ==
  /\ Policies \subseteq {"pingpong", "xz"}
  /\ Faults \subseteq {"boot", "appread", "cfgwrite", "stream", "again"}
  /\ MaxVer \in Nat \ {0}

VARIABLES
  policy,     \* CONFIG_OTA_POLICY_PINGPONG or .._IMAGE_COMPRESSION
  img,        \* the areas: of which download, and how much of it is there
  cfg,        \* the verified image the configuration names, or Bad
  mode,       \* what the processor executes
  cfgSeq,     \* main's cfg_seq
  loadSeq,    \* its load_seq
  tries,      \* the loop count of bl_load_bin
  running,    \* the area the application was loaded from
  runningSeq, \* image_ota_param_t::running_seq in the application
  ver,        \* the images downloaded so far
  committed,  \* the last one ota_verify_image returned OK for
  updated,    \* it did so since the last reset
  faults      \* the elements of Faults there have been

boot  == <<cfgSeq, loadSeq, tries>>
ota   == <<ver, committed, updated>>
vars  == <<policy, img, cfg, mode, boot, running, runningSeq, ota, faults>>

Seqs == {0, 1}
Bad  == 2          \* IMAGE_SEQ_NUM, and a configuration that cannot be read

\* How much of an image is in its area: nothing, the application section and
\* perhaps others, or all that image_check_sections looks at.
None  == 0
Some  == 1
Whole == 2

\* Mutated: the area of the policy "xz" under both.
UpdateSecond(seq) == 1

Update(seq) == (seq + 1) % 2     \* ota_update_seq_policy

\* Area 1 holds a compressed image under the policy "xz".
Loadable(s) == img[s].part # None /\ ~(policy = "xz" /\ s = 1)

Go(from, to) == mode = from /\ mode' = to

\* Something fails, which does not end the program; or the application does
\* what the properties have to exclude.
Fault(f) == f \in Faults /\ faults' = faults \cup {f}

\* From the factory: area 0 is programmed, the rest is erased.
Init ==
  /\ policy \in Policies
  /\ img = [s \in Seqs |-> [ver |-> 0, part |-> IF s = 0 THEN Whole ELSE None]]
  /\ cfg = Bad
  /\ mode = "off"
  /\ cfgSeq = 0 /\ loadSeq = 0 /\ tries = 0
  /\ running = 0 /\ runningSeq = 0
  /\ ver = 0 /\ committed = 0 /\ updated = FALSE
  /\ faults = {}

-----------------------------------------------------------------------------
(* Erasing an area and setting the configuration take time *)

\* A part of the area is erased.
EraseSome(s) ==
  /\ \E p \in {None, Some} : p < img[s].part /\ img' = [img EXCEPT ![s].part = p]
  /\ UNCHANGED <<policy, cfg, mode, boot, running, runningSeq, ota, faults>>

\* The FDCM area is rewritten: for a while no configuration can be read.
CfgSpoilt ==
  /\ cfg' = Bad /\ cfg # Bad
  /\ UNCHANGED <<policy, img, mode, boot, running, runningSeq, ota, faults>>

\* image_set_cfg returns an error, whatever it has written until then.
CfgFails(s) ==
  /\ cfg' \in {cfg, Bad, s}
  /\ Fault("cfgwrite")

-----------------------------------------------------------------------------
(* The bootloader *)

PowerOn ==
  /\ Go("off", "boot")
  /\ UNCHANGED <<policy, img, cfg, boot, running, runningSeq, ota, faults>>

\* Mutated: the configuration does not decide what is loaded.
ReadCfgLoadsFirst ==
  /\ Go("boot", "load")
  /\ cfgSeq' = cfg /\ loadSeq' = 0 /\ tries' = 0
  /\ UNCHANGED <<policy, img, cfg, running, runningSeq, ota, faults>>

\* Mutated: a compressed image is not unpacked.
ReadCfgNoUnpack ==
  /\ Go("boot", "load")
  /\ cfgSeq' = cfg /\ loadSeq' = (IF cfg = Bad THEN 0 ELSE cfg) /\ tries' = 0
  /\ UNCHANGED <<policy, img, cfg, running, runningSeq, ota, faults>>

\* bl_uncompress_image: an image named by the configuration is unpacked if
\* the areas are laid out for compressed ones.
ReadCfg ==
  /\ Go("boot", IF cfg = 1 /\ policy = "xz" THEN "unpack" ELSE "load")
  /\ cfgSeq' = cfg /\ loadSeq' = (IF cfg = Bad THEN 0 ELSE cfg) /\ tries' = 0
  /\ UNCHANGED <<policy, img, cfg, running, runningSeq, ota, faults>>

ReadCfgFails ==
  /\ Go("boot", "load")
  /\ Fault("boot")
  /\ cfgSeq' = Bad /\ loadSeq' = 0 /\ tries' = 0
  /\ UNCHANGED <<policy, img, cfg, running, runningSeq, ota>>

\* Mutated: the configuration names area 0 before the image is there.
UnpackEraseCfgFirst ==
  /\ Go("unpack", "decompress")
  /\ img' = [img EXCEPT ![0].part = None]
  /\ cfg' = 0
  /\ UNCHANGED <<policy, boot, running, runningSeq, ota, faults>>

\* bl_xz_image erases area 0.  The flag that an image is compressed is also
\* set in an erased area.
UnpackErase ==
  /\ Go("unpack", "decompress")
  /\ img' = [img EXCEPT ![0].part = None]
  /\ UNCHANGED <<policy, cfg, boot, running, runningSeq, ota, faults>>

UnpackErasing == mode = "unpack" /\ EraseSome(0)

\* The loop of bl_xz_image; part of a stream does not unpack to all of it.
Decompress ==
  /\ mode = "decompress" /\ img[0].part < img[1].part
  /\ img' = [img EXCEPT ![0] = [ver |-> img[1].ver, part |-> @.part + 1]]
  /\ UNCHANGED <<policy, cfg, mode, boot, running, runningSeq, ota, faults>>

\* image_check_ota_sections, with the sequence that the configuration had: it
\* is the compressed image in area 1 that is checked again, and area 0 is not.
CheckedAgain == IF img[1].part = Whole THEN "unpacked" ELSE "upgrade"

\* The stream ends.
DecompressDone ==
  /\ Go("decompress", CheckedAgain)
  /\ img[0].part = Whole \/ img[1].part # Whole
  /\ UNCHANGED <<policy, img, cfg, boot, running, runningSeq, ota, faults>>

\* An error of the flash or of the decoder ends the loop like its end does.
DecompressBreaks ==
  /\ Go("decompress", CheckedAgain)
  /\ Fault("boot") \/ Fault("stream")
  /\ UNCHANGED <<policy, img, cfg, boot, running, runningSeq, ota>>

\* The errors outside the loop: the headers, the memory of the decoder, the
\* erase, or what the check reads.
UnpackFails ==
  /\ mode \in {"unpack", "decompress"} /\ mode' = "upgrade"
  /\ Fault("boot")
  /\ UNCHANGED <<policy, img, cfg, boot, running, runningSeq, ota>>

\* The image sequence read from the configuration is still 1, which makes
\* bl_load_bin set the configuration again.
UnpackedCfg ==
  \/ mode = "unpacked" /\ CfgSpoilt
  \/ /\ Go("unpacked", "load")
     /\ cfg' = 0 /\ loadSeq' = 0
     /\ UNCHANGED <<policy, img, cfgSeq, tries, running, runningSeq, ota, faults>>
  \/ /\ Go("unpacked", "upgrade")
     /\ CfgFails(0)
     /\ UNCHANGED <<policy, img, boot, running, runningSeq, ota>>

\* bl_load_bin: the application section of load_seq is good.
Load ==
  /\ tries < 2 /\ Loadable(loadSeq)
  /\ Go("load", IF loadSeq = cfgSeq THEN "start" ELSE "fallback")
  /\ UNCHANGED <<policy, img, cfg, boot, running, runningSeq, ota, faults>>

\* It is not, or it cannot be read: the other area is tried.
LoadOther ==
  /\ mode = "load" /\ tries < 2
  /\ \/ ~Loadable(loadSeq) /\ UNCHANGED faults
     \/ Fault("boot")
  /\ loadSeq' = (loadSeq + 1) % 2 /\ tries' = tries + 1
  /\ UNCHANGED <<policy, img, cfg, mode, cfgSeq, running, runningSeq, ota>>

LoadNone ==
  /\ tries = 2
  /\ Go("load", "upgrade")
  /\ UNCHANGED <<policy, img, cfg, boot, running, runningSeq, ota, faults>>

\* Mutated: the configuration is left as it is.
FallbackCfgKept ==
  /\ Go("fallback", "start")
  /\ UNCHANGED <<policy, img, cfg, boot, running, runningSeq, ota, faults>>

\* What was loaded becomes the image verified.  An error is only logged.
FallbackCfg ==
  \/ mode = "fallback" /\ CfgSpoilt
  \/ /\ Go("fallback", "start")
     /\ cfg' = loadSeq
     /\ UNCHANGED <<policy, img, boot, running, runningSeq, ota, faults>>
  \/ /\ Go("fallback", "start")
     /\ CfgFails(loadSeq)
     /\ UNCHANGED <<policy, img, boot, running, runningSeq, ota>>

-----------------------------------------------------------------------------
(* The application *)

\* image_init: the running sequence is the one of the configuration, or 0 if
\* that cannot be read.
Start ==
  /\ Go("start", "app")
  /\ running' = loadSeq
  /\ \/ runningSeq' = (IF cfg = Bad THEN 0 ELSE cfg) /\ UNCHANGED faults
     \/ Fault("appread") /\ runningSeq' = 0
  /\ UNCHANGED <<policy, img, cfg, boot, ota>>

\* ota_get_image or ota_push_start, up to the erase.
OtaStart ==
  /\ Go("app", "otaErase")
  /\ ver < MaxVer
  /\ IF updated THEN Fault("again") ELSE UNCHANGED faults
  /\ UNCHANGED <<policy, img, cfg, boot, running, runningSeq, ota>>

Area == Update(runningSeq)

OtaErasing == mode = "otaErase" /\ EraseSome(Area)

OtaErased ==
  /\ Go("otaErase", "otaWrite")
  /\ ver' = ver + 1
  /\ img' = [img EXCEPT ![Area] = [ver |-> ver + 1, part |-> None]]
  /\ UNCHANGED <<policy, cfg, boot, running, runningSeq, committed, updated, faults>>

OtaWrite ==
  /\ mode = "otaWrite" /\ img[Area].part # Whole
  /\ img' = [img EXCEPT ![Area].part = @ + 1]
  /\ UNCHANGED <<policy, cfg, mode, boot, running, runningSeq, ota, faults>>

\* The stream ends, with all of an image or too soon, or the area is full.
OtaEnd ==
  /\ Go("otaWrite", "otaCheck")
  /\ UNCHANGED <<policy, img, cfg, boot, running, runningSeq, ota, faults>>

OtaFails ==
  /\ mode \in {"otaErase", "otaWrite", "otaCheck"} /\ mode' = "app"
  /\ UNCHANGED <<policy, img, cfg, boot, running, runningSeq, ota, faults>>

\* Mutated: what was downloaded is not checked.
OtaCheckNothing ==
  /\ Go("otaCheck", "otaVerify")
  /\ UNCHANGED <<policy, img, cfg, boot, running, runningSeq, ota, faults>>

\* image_check_sections
OtaCheck ==
  /\ Go("otaCheck", "otaVerify")
  /\ img[Area].part = Whole
  /\ UNCHANGED <<policy, img, cfg, boot, running, runningSeq, ota, faults>>

\* ota_verify_image
OtaVerify ==
  \/ mode = "otaVerify" /\ CfgSpoilt
  \/ /\ Go("otaVerify", "app")
     /\ cfg' = Area
     /\ committed' = img[Area].ver /\ updated' = TRUE
     /\ UNCHANGED <<policy, img, boot, running, runningSeq, ver, faults>>
  \/ /\ Go("otaVerify", "app")
     /\ CfgFails(Area)
     /\ UNCHANGED <<policy, img, boot, running, runningSeq, ota>>

\* ota_reboot, a power failure, or a power cycle.
Reset ==
  /\ mode # "off" /\ mode' = "off"
  /\ cfgSeq' = 0 /\ loadSeq' = 0 /\ tries' = 0
  /\ running' = 0 /\ runningSeq' = 0
  /\ updated' = FALSE
  /\ UNCHANGED <<policy, img, cfg, ver, committed, faults>>

-----------------------------------------------------------------------------
Boot ==
  \/ PowerOn \/ ReadCfg
  \/ UnpackErase \/ Decompress \/ DecompressDone \/ UnpackedCfg
  \/ Load \/ LoadOther \/ LoadNone \/ FallbackCfg \/ Start

Next ==
  \/ Boot \/ ReadCfgFails \/ UnpackErasing \/ DecompressBreaks \/ UnpackFails
  \/ OtaStart \/ OtaErasing \/ OtaErased \/ OtaWrite \/ OtaEnd \/ OtaFails
  \/ OtaCheck \/ OtaVerify
  \/ Reset

\* Power lasts, sooner or later, for each step of a boot.
Fairness ==
  /\ SF_vars(PowerOn) /\ SF_vars(ReadCfg) /\ SF_vars(UnpackErase)
  /\ SF_vars(Decompress) /\ SF_vars(Decompress /\ img'[0].part = Whole)
  /\ SF_vars(DecompressDone)
  /\ SF_vars(UnpackedCfg /\ mode' # mode)
  /\ SF_vars(Load) /\ SF_vars(LoadOther) /\ SF_vars(LoadNone)
  /\ SF_vars(FallbackCfg /\ mode' # mode) /\ SF_vars(Start)

Spec     == Init /\ [][Next]_vars
FairSpec == Spec /\ Fairness
-----------------------------------------------------------------------------
(* Properties *)

\* Areas, a configuration, and one program running.
OtaTypeOK ==
  /\ policy \in Policies
  /\ img \in [Seqs -> [ver : 0 .. MaxVer, part : {None, Some, Whole}]]
  /\ cfg \in Seqs \cup {Bad}
  /\ mode \in {"off", "boot", "unpack", "decompress", "unpacked", "load",
               "fallback", "start", "upgrade", "app", "otaErase", "otaWrite",
               "otaCheck", "otaVerify"}
  /\ cfgSeq \in Seqs \cup {Bad} /\ loadSeq \in Seqs /\ tries \in 0 .. 2
  /\ running \in Seqs /\ runningSeq \in Seqs
  /\ ver \in 0 .. MaxVer /\ committed \in 0 .. MaxVer
  /\ updated \in BOOLEAN /\ faults \subseteq Faults

Updating == mode \in {"otaErase", "otaWrite", "otaCheck", "otaVerify"}

\* ota_get_update_seq never gives the application the area it runs from to
\* erase, also after the bootloader could not load the image configured and
\* fell back to the other one, and in a second update; unless the
\* configuration was not read by image_init or not written by the bootloader.
RunningKept ==
  faults \subseteq {"boot", "stream", "again"} /\ Updating => Area # running

\* "Verify the image file and modify OTA configuration correspondingly"
\* (ota.h:182): the image the bootloader finds named by the configuration is
\* whole, wherever power went in an update or unpacking, with three exceptions:
\* the flash failed; a second update before the reset erased the area named; or
\* an image that was checked did not unpack, and then it is area 0 that may not
\* be whole: the bootloader names it and has checked area 1 (main.c:429-456).
VerifiedIsWhole ==
  mode = "boot" /\ cfg # Bad /\ (faults = {} \/ (faults = {"stream"} /\ cfg = 1))
    => img[cfg].part = Whole

\* The bootloader gives up, "enter upgrade mode" (main.c:1113, 1179), only if
\* flash or memory failed or an image that was checked did not unpack: an update
\* or an unpacking cut short leaves an image to run.
\* A second update before the reset does so too, unless the configuration
\* then names a compressed image that is gone.
AlwaysBoots ==
  mode = "upgrade" =>
    \/ faults \ {"again"} # {}
    \/ policy = "xz" /\ faults = {"again"}

\* Once ota_verify_image returned OK, no reset starts an older image, if
\* nothing fails.
NoDowngrade ==
  mode = "app" /\ faults = {} /\ ~updated => img[running].ver >= committed

\* An application runs, from its start to the next reset.
On == mode = "app" \/ Updating

\* The area the bootloader tries first.
Named == IF cfg = Bad THEN 0 ELSE cfg

Device == INSTANCE AtomicUpdate WITH
  on     <- On,
  runs   <- IF On THEN img[running].ver ELSE 0,
  next   <- IF img[Named].part = Whole THEN img[Named].ver ELSE MaxVer + 1,
  newest <- ver,
  broken <- faults # {}

\* To the user an update is one step, from the version that runs to the one
\* downloaded, however many cuts of power the erase, the writes, the check,
\* the new configuration and the unpacking of the image take; as long as
\* nothing but power fails and every update is waited for.
ImplementsUpdate == Device!Spec

\* And a reset does start that image: it is unpacked again and again until
\* power lasts, and never lost.
UpdateTakesHold ==
  [](faults = {}) =>
    \A v \in 1 .. MaxVer :
      (mode = "off" /\ committed = v) ~> (mode = "app" /\ img[running].ver >= v)
=============================================================================
