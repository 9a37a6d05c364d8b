--------------------------- MODULE OtaBootProofs ---------------------------
(***************************************************************************)
(* The safety properties of update and boot, for any number of downloads,  *)
(* any of the policies and any of the faults.                              *)
(***************************************************************************)
EXTENDS OtaBoot, TLAPS

\* Versions only grow, and an image is unpacked only if the configuration
\* names a compressed one.
TInv ==
  /\ OtaTypeOK
  /\ mode = "otaErase" => ver < MaxVer
  /\ \A s \in Seqs : img[s].ver <= ver
  /\ committed <= ver
  /\ mode \in {"unpack", "decompress"} =>
       policy = "xz" /\ cfg = 1 /\ cfgSeq = 1 /\ tries = 0
  /\ mode = "unpacked" =>
       policy = "xz" /\ cfg \in {1, Bad} /\ cfgSeq = 1 /\ tries = 0

\* The configuration names the area that is loaded, and then the one that
\* runs, if it was read by the application and written by the bootloader.
RInv ==
  faults \subseteq {"boot", "stream", "again"} =>
    /\ mode = "load" => cfgSeq \in {Bad, cfg} \/ (policy = "xz" /\ cfgSeq = 1)
    /\ mode = "start" => cfg = loadSeq
    /\ mode = "app" \/ Updating => runningSeq = running

\* Without a fault the area named is whole and no older than what was
\* committed, and nothing but the other area is written.
CInv ==
  faults = {} =>
    /\ img[Named].part = Whole /\ img[Named].ver >= committed
    /\ mode = "decompress" => img[0].part = None \/ img[0].ver = img[1].ver
    /\ mode = "unpacked" => /\ img[0].part = Whole /\ img[0].ver >= committed
                            /\ cfg = 1 => img[0].ver = img[1].ver
    /\ mode = "load" => /\ loadSeq = Named /\ tries = 0 /\ cfg \in {cfgSeq, 0}
                        /\ ~(policy = "xz" /\ loadSeq = 1)
    /\ mode = "fallback" => loadSeq = 0 /\ Named = 0
    /\ mode = "start" => cfg = loadSeq
    /\ mode = "app" /\ ~updated => cfg = running
    /\ mode \in {"otaErase", "otaWrite", "otaCheck"} => cfg = running
    /\ mode = "otaVerify" =>
         cfg \in {running, Bad} /\ img[Area].part = Whole /\ img[running].part = Whole
    /\ mode \in {"otaWrite", "otaCheck", "otaVerify"} => img[Area].ver = ver
    /\ mode # "upgrade"

\* An image that does not unpack leaves area 0 behind, and the one it came from
\* stays whole until the next update has its place named.
XInv ==
  /\ "stream" \in faults => policy = "xz"
  /\ policy = "xz" /\ faults \subseteq {"stream"} =>
       /\ cfg = 1 => img[1].part = Whole
       /\ mode \in {"fallback", "start"} => loadSeq = 0
       /\ mode = "app" \/ Updating => running = 0
       /\ mode = "app" /\ ~updated => cfg = 0
       /\ mode \in {"otaErase", "otaWrite", "otaCheck"} => cfg = 0
       /\ mode = "otaVerify" => cfg \in {0, Bad} /\ img[1].part = Whole

\* Where images are not unpacked, the application that runs stays loadable
\* whatever is downloaded, and the bootloader finds it.
AInv ==
  policy # "xz" /\ faults \subseteq {"again"} =>
    /\ \E s \in Seqs : img[s].part # None
    /\ mode = "load" => \/ img[loadSeq].part # None /\ tries < 2
                        \/ tries = 0
    /\ mode \in {"fallback", "start"} => img[loadSeq].part # None
    /\ mode = "app" \/ Updating => img[running].part # None
    /\ mode # "upgrade"

IInv == TInv /\ RInv /\ CInv /\ XInv /\ AInv

LEMMA InitIInv == Init => IInv
<1> SUFFICES ASSUME Init PROVE IInv
  OBVIOUS
<1> USE OtaAssumption DEF Seqs, Bad, None, Some, Whole
<1>1. /\ img \in [Seqs -> [ver : 0 .. MaxVer, part : {None, Some, Whole}]]
      /\ \A s \in Seqs : img[s].ver = 0
      /\ img[0].part = Whole
  BY DEF Init
<1>2. TInv
  <2>1. OtaTypeOK
    <3>1. updated \in BOOLEAN
      BY DEF Init
    <3> QED BY <1>1, <3>1 DEF Init, OtaTypeOK
  <2> QED BY <1>1, <2>1 DEF Init, TInv
<1>3. RInv /\ CInv /\ XInv /\ AInv
  BY <1>1 DEF Init, RInv, CInv, XInv, AInv, Named, Updating
<1> QED BY <1>2, <1>3 DEF IInv

-----------------------------------------------------------------------------
\* The shape of the state is kept, and no image is newer than the last one
\* downloaded.
LEMMA TypeStep == TInv /\ [Next]_vars => TInv'
<1> SUFFICES ASSUME TInv, [Next]_vars PROVE TInv'
  OBVIOUS
<1> USE OtaAssumption DEF TInv, OtaTypeOK, Seqs, Bad, None, Some, Whole, Go, Fault
<1>1. CASE PowerOn
  BY <1>1 DEF PowerOn, boot, ota
<1>2. CASE ReadCfg
  BY <1>2 DEF ReadCfg, ota
<1>3. CASE UnpackErase
  BY <1>3 DEF UnpackErase, boot, ota
<1>4. CASE Decompress
  <2>1. /\ mode = "decompress" /\ img[0].part < img[1].part
        /\ img' = [img EXCEPT ![0] = [ver |-> img[1].ver, part |-> img[0].part + 1]]
    BY <1>4 DEF Decompress
  <2>2. img[0].part + 1 \in {Some, Whole} /\ img[1].ver \in 0 .. MaxVer
    BY <2>1
  <2> QED BY <1>4, <2>1, <2>2 DEF Decompress, boot, ota
<1>5. CASE DecompressDone
  BY <1>5 DEF DecompressDone, CheckedAgain, boot, ota
<1>6. CASE UnpackedCfg
  BY <1>6 DEF UnpackedCfg, CfgSpoilt, CfgFails, boot, ota
<1>7. CASE Load
  BY <1>7 DEF Load, boot, ota
<1>8. CASE LoadOther
  <2>1. faults' \subseteq Faults
    BY <1>8 DEF LoadOther
  <2>2. /\ tries < 2 /\ tries' = tries + 1 /\ loadSeq' = (loadSeq + 1) % 2
        /\ UNCHANGED <<policy, img, cfg, mode, cfgSeq, running, runningSeq, ota>>
    BY <1>8 DEF LoadOther
  <2>3. loadSeq' \in Seqs /\ tries' \in 0 .. 2
    BY <2>2
  <2>4. mode' = "load" /\ UNCHANGED <<ver, committed, updated, img, cfg>>
    BY <1>8 DEF LoadOther, ota
  <2>5. OtaTypeOK'
    BY <2>1, <2>2, <2>3, <2>4
  <2> QED BY <2>4, <2>5
<1>9. CASE LoadNone
  BY <1>9 DEF LoadNone, boot, ota
<1>10. CASE FallbackCfg
  BY <1>10 DEF FallbackCfg, CfgSpoilt, CfgFails, boot, ota
<1>11. CASE Start
  BY <1>11 DEF Start, boot, ota
<1>12. CASE ReadCfgFails
  BY <1>12 DEF ReadCfgFails, ota
<1>13. CASE UnpackErasing
  BY <1>13 DEF UnpackErasing, EraseSome, boot, ota
<1>14. CASE UnpackFails
  BY <1>14 DEF UnpackFails, boot, ota
<1>15. CASE OtaStart
  BY <1>15 DEF OtaStart, boot, ota
<1>16. CASE OtaErasing
  BY <1>16 DEF OtaErasing, EraseSome, Area, Update, boot, ota
<1>17. CASE OtaErased
  <2>1. Area \in Seqs /\ ver + 1 \in 0 .. MaxVer
    BY <1>17 DEF OtaErased, Area, Update
  <2>2. img' = [img EXCEPT ![Area] = [ver |-> ver + 1, part |-> None]] /\ ver' = ver + 1
    BY <1>17 DEF OtaErased
  <2> QED BY <1>17, <2>1, <2>2 DEF OtaErased, boot
<1>18. CASE OtaWrite
  <2>1. Area \in Seqs
    BY DEF Area, Update
  <2>2. img' = [img EXCEPT ![Area].part = img[Area].part + 1] /\ img[Area].part # Whole
    BY <1>18 DEF OtaWrite
  <2>3. img[Area].part + 1 \in {Some, Whole}
    BY <2>1, <2>2
  <2> QED BY <1>18, <2>1, <2>2, <2>3 DEF OtaWrite, boot, ota
<1>19. CASE OtaEnd
  BY <1>19 DEF OtaEnd, boot, ota
<1>20. CASE OtaFails
  BY <1>20 DEF OtaFails, boot, ota
<1>21. CASE OtaCheck
  BY <1>21 DEF OtaCheck, boot, ota
<1>22. CASE OtaVerify
  <2>1. Area \in Seqs
    BY DEF Area, Update
  <2>2. /\ cfg' \in Seqs \cup {Bad} /\ mode' \in {"app", "otaVerify"}
        /\ committed' \in {committed, img[Area].ver} /\ updated' \in BOOLEAN
        /\ faults' \subseteq Faults
        /\ UNCHANGED <<policy, img, boot, running, runningSeq, ver>>
    BY <1>22, <2>1 DEF OtaVerify, CfgSpoilt, CfgFails, ota
  <2> QED BY <2>1, <2>2 DEF boot
<1>23. CASE Reset
  <2>1. /\ mode' = "off" /\ cfgSeq' = 0 /\ loadSeq' = 0 /\ tries' = 0
        /\ running' = 0 /\ runningSeq' = 0 /\ updated' \in BOOLEAN
        /\ policy' = policy /\ img' = img /\ cfg' = cfg
        /\ ver' = ver /\ committed' = committed /\ faults' = faults
    BY <1>23 DEF Reset
  <2> QED BY <2>1
<1>24. CASE DecompressBreaks
  BY <1>24 DEF DecompressBreaks, CheckedAgain, boot, ota
<1>25. CASE UNCHANGED vars
  BY <1>25 DEF vars, boot, ota
<1> QED
  BY <1>1, <1>2, <1>3, <1>4, <1>5, <1>6, <1>7, <1>8, <1>9, <1>10, <1>11, <1>12, <1>13,
     <1>14, <1>15, <1>16, <1>17, <1>18, <1>19, <1>20, <1>21, <1>22, <1>23, <1>24,
     <1>25
     DEF Next, Boot
-----------------------------------------------------------------------------
\* What is loaded is what the configuration names, or becomes it.
LEMMA RunningStep == TInv /\ RInv /\ [Next]_vars => RInv'
<1> SUFFICES ASSUME TInv /\ RInv, [Next]_vars PROVE RInv'
  OBVIOUS
<1> USE OtaAssumption DEF TInv, OtaTypeOK, Seqs, Bad, None, Some, Whole, Go, Fault, RInv, Updating
<1>1. CASE PowerOn
  BY <1>1 DEF PowerOn, boot, ota
<1>2. CASE ReadCfg
  BY <1>2 DEF ReadCfg, boot, ota
<1>3. CASE UnpackErase
  BY <1>3 DEF UnpackErase, boot, ota
<1>4. CASE Decompress
  BY <1>4 DEF Decompress, boot, ota
<1>5. CASE DecompressDone
  BY <1>5 DEF DecompressDone, CheckedAgain, boot, ota
<1>6. CASE UnpackedCfg
  BY <1>6 DEF UnpackedCfg, CfgSpoilt, CfgFails, boot, ota
<1>7. CASE Load
  BY <1>7 DEF Load, Loadable, boot, ota
<1>8. CASE LoadOther
  BY <1>8 DEF LoadOther, Loadable, boot, ota
<1>9. CASE LoadNone
  BY <1>9 DEF LoadNone, boot, ota
<1>10. CASE FallbackCfg
  BY <1>10 DEF FallbackCfg, CfgSpoilt, CfgFails, boot, ota
<1>11. CASE Start
  BY <1>11 DEF Start, boot, ota
<1>12. CASE ReadCfgFails
  BY <1>12 DEF ReadCfgFails, boot, ota
<1>13. CASE UnpackErasing
  BY <1>13 DEF UnpackErasing, EraseSome, boot, ota
<1>14. CASE UnpackFails
  BY <1>14 DEF UnpackFails, boot, ota
<1>15. CASE OtaStart
  BY <1>15 DEF OtaStart, boot, ota
<1>16. CASE OtaErasing
  BY <1>16 DEF OtaErasing, EraseSome, Area, Update, boot, ota
<1>17. CASE OtaErased
  BY <1>17 DEF OtaErased, Area, Update, boot, ota
<1>18. CASE OtaWrite
  BY <1>18 DEF OtaWrite, Area, Update, boot, ota
<1>19. CASE OtaEnd
  BY <1>19 DEF OtaEnd, boot, ota
<1>20. CASE OtaFails
  BY <1>20 DEF OtaFails, boot, ota
<1>21. CASE OtaCheck
  BY <1>21 DEF OtaCheck, Area, Update, boot, ota
<1>22. CASE OtaVerify
  BY <1>22 DEF OtaVerify, CfgSpoilt, CfgFails, Area, Update, boot, ota
<1>23. CASE Reset
  BY <1>23 DEF Reset, boot, ota
<1>24. CASE DecompressBreaks
  BY <1>24 DEF DecompressBreaks, CheckedAgain, boot, ota
<1>25. CASE UNCHANGED vars
  BY <1>25 DEF vars, boot, ota
<1> QED
  BY <1>1, <1>2, <1>3, <1>4, <1>5, <1>6, <1>7, <1>8, <1>9, <1>10, <1>11, <1>12, <1>13,
     <1>14, <1>15, <1>16, <1>17, <1>18, <1>19, <1>20, <1>21, <1>22, <1>23, <1>24,
     <1>25
     DEF Next, Boot

\* Nothing but the area that is not named is ever written.
LEMMA CleanStep == TInv /\ RInv /\ CInv /\ [Next]_vars => CInv'
<1> SUFFICES ASSUME TInv /\ RInv /\ CInv, [Next]_vars PROVE CInv'
  OBVIOUS
<1> USE OtaAssumption DEF TInv, OtaTypeOK, Seqs, Bad, None, Some, Whole, Go, Fault, RInv, CInv, Named, Updating
<1>1. CASE PowerOn
  BY <1>1 DEF PowerOn, boot, ota
<1>2. CASE ReadCfg
  BY <1>2 DEF ReadCfg, boot, ota
<1>3. CASE UnpackErase
  BY <1>3 DEF UnpackErase, boot, ota
<1>4. CASE Decompress
  BY <1>4 DEF Decompress, boot, ota
<1>5. CASE DecompressDone
  BY <1>5 DEF DecompressDone, CheckedAgain, boot, ota
<1>6. CASE UnpackedCfg
  <2>1. CASE mode = "unpacked" /\ CfgSpoilt
    BY <2>1 DEF CfgSpoilt, boot, ota
  <2>2. CASE /\ Go("unpacked", "load")
             /\ cfg' = 0 /\ loadSeq' = 0
             /\ UNCHANGED <<policy, img, cfgSeq, tries, running, runningSeq, ota, faults>>
    BY <2>2 DEF ota
  <2>3. CASE CfgFails(0)
    BY <2>3 DEF CfgFails
  <2> QED BY <1>6, <2>1, <2>2, <2>3 DEF UnpackedCfg
<1>7. CASE Load
  BY <1>7 DEF Load, Loadable, boot, ota
<1>8. CASE LoadOther
  BY <1>8 DEF LoadOther, Loadable, boot, ota
<1>9. CASE LoadNone
  BY <1>9 DEF LoadNone, boot, ota
<1>10. CASE FallbackCfg
  BY <1>10 DEF FallbackCfg, CfgSpoilt, CfgFails, boot, ota
<1>11. CASE Start
  BY <1>11 DEF Start, boot, ota
<1>12. CASE ReadCfgFails
  BY <1>12 DEF ReadCfgFails, boot, ota
<1>13. CASE UnpackErasing
  BY <1>13 DEF UnpackErasing, EraseSome, boot, ota
<1>14. CASE UnpackFails
  BY <1>14 DEF UnpackFails, boot, ota
<1>15. CASE OtaStart
  BY <1>15 DEF OtaStart, boot, ota
<1>16. CASE OtaErasing
  BY <1>16 DEF OtaErasing, EraseSome, Area, Update, boot, ota
<1>17. CASE OtaErased
  BY <1>17 DEF OtaErased, Area, Update, boot, ota
<1>18. CASE OtaWrite
  BY <1>18 DEF OtaWrite, Area, Update, boot, ota
<1>19. CASE OtaEnd
  BY <1>19 DEF OtaEnd, Area, Update, boot, ota
<1>20. CASE OtaFails
  BY <1>20 DEF OtaFails, boot, ota
<1>21. CASE OtaCheck
  BY <1>21 DEF OtaCheck, Area, Update, boot, ota
<1>22. CASE OtaVerify
  BY <1>22 DEF OtaVerify, CfgSpoilt, CfgFails, Area, Update, boot, ota
<1>23. CASE Reset
  BY <1>23 DEF Reset, boot, ota
<1>24. CASE DecompressBreaks
  BY <1>24 DEF DecompressBreaks, CheckedAgain, boot, ota
<1>25. CASE UNCHANGED vars
  BY <1>25 DEF vars, Area, Update, boot, ota
<1> QED
  BY <1>1, <1>2, <1>3, <1>4, <1>5, <1>6, <1>7, <1>8, <1>9, <1>10, <1>11, <1>12, <1>13,
     <1>14, <1>15, <1>16, <1>17, <1>18, <1>19, <1>20, <1>21, <1>22, <1>23, <1>24,
     <1>25
     DEF Next, Boot

\* What the configuration names in area 1 is not written.
LEMMA PackedStep == TInv /\ RInv /\ XInv /\ [Next]_vars => XInv'
<1> SUFFICES ASSUME TInv /\ RInv /\ XInv, [Next]_vars PROVE XInv'
  OBVIOUS
<1> USE OtaAssumption DEF TInv, OtaTypeOK, Seqs, Bad, None, Some, Whole, Go, Fault, RInv, XInv, Updating
<1>1. CASE PowerOn
  BY <1>1 DEF PowerOn, boot, ota
<1>2. CASE ReadCfg
  BY <1>2 DEF ReadCfg, boot, ota
<1>3. CASE UnpackErase
  BY <1>3 DEF UnpackErase, boot, ota
<1>4. CASE Decompress
  BY <1>4 DEF Decompress, boot, ota
<1>5. CASE DecompressDone
  BY <1>5 DEF DecompressDone, CheckedAgain, boot, ota
<1>6. CASE UnpackedCfg
  BY <1>6 DEF UnpackedCfg, CfgSpoilt, CfgFails, boot, ota
<1>7. CASE Load
  BY <1>7 DEF Load, Loadable, boot, ota
<1>8. CASE LoadOther
  BY <1>8 DEF LoadOther, Loadable, boot, ota
<1>9. CASE LoadNone
  BY <1>9 DEF LoadNone, boot, ota
<1>10. CASE FallbackCfg
  BY <1>10 DEF FallbackCfg, CfgSpoilt, CfgFails, boot, ota
<1>11. CASE Start
  BY <1>11 DEF Start, boot, ota
<1>12. CASE ReadCfgFails
  BY <1>12 DEF ReadCfgFails, boot, ota
<1>13. CASE UnpackErasing
  BY <1>13 DEF UnpackErasing, EraseSome, boot, ota
<1>14. CASE UnpackFails
  BY <1>14 DEF UnpackFails, boot, ota
<1>15. CASE OtaStart
  BY <1>15 DEF OtaStart, boot, ota
<1>16. CASE OtaErasing
  BY <1>16 DEF OtaErasing, EraseSome, Area, Update, boot, ota
<1>17. CASE OtaErased
  BY <1>17 DEF OtaErased, Area, Update, boot, ota
<1>18. CASE OtaWrite
  BY <1>18 DEF OtaWrite, Area, Update, boot, ota
<1>19. CASE OtaEnd
  BY <1>19 DEF OtaEnd, boot, ota
<1>20. CASE OtaFails
  BY <1>20 DEF OtaFails, boot, ota
<1>21. CASE OtaCheck
  BY <1>21 DEF OtaCheck, Area, Update, boot, ota
<1>22. CASE OtaVerify
  BY <1>22 DEF OtaVerify, CfgSpoilt, CfgFails, Area, Update, boot, ota
<1>23. CASE Reset
  BY <1>23 DEF Reset, boot, ota
<1>24. CASE DecompressBreaks
  BY <1>24 DEF DecompressBreaks, CheckedAgain, boot, ota
<1>25. CASE UNCHANGED vars
  BY <1>25 DEF vars, boot, ota
<1> QED
  BY <1>1, <1>2, <1>3, <1>4, <1>5, <1>6, <1>7, <1>8, <1>9, <1>10, <1>11, <1>12, <1>13,
     <1>14, <1>15, <1>16, <1>17, <1>18, <1>19, <1>20, <1>21, <1>22, <1>23, <1>24,
     <1>25
     DEF Next, Boot

\* The application never writes its own area.
LEMMA CalmStep == TInv /\ RInv /\ AInv /\ [Next]_vars => AInv'
<1> SUFFICES ASSUME TInv /\ RInv /\ AInv, [Next]_vars PROVE AInv'
  OBVIOUS
<1> USE OtaAssumption DEF TInv, OtaTypeOK, Seqs, Bad, None, Some, Whole, Go, Fault, RInv, AInv, Updating
<1>1. CASE PowerOn
  BY <1>1 DEF PowerOn, boot, ota
<1>2. CASE ReadCfg
  BY <1>2 DEF ReadCfg, boot, ota
<1>3. CASE UnpackErase
  BY <1>3 DEF UnpackErase, boot, ota
<1>4. CASE Decompress
  BY <1>4 DEF Decompress, boot, ota
<1>5. CASE DecompressDone
  BY <1>5 DEF DecompressDone, CheckedAgain, boot, ota
<1>6. CASE UnpackedCfg
  BY <1>6 DEF UnpackedCfg, CfgSpoilt, CfgFails, boot, ota
<1>7. CASE Load
  BY <1>7 DEF Load, Loadable, boot, ota
<1>8. CASE LoadOther
  BY <1>8 DEF LoadOther, Loadable, boot, ota
<1>9. CASE LoadNone
  BY <1>9 DEF LoadNone, boot, ota
<1>10. CASE FallbackCfg
  BY <1>10 DEF FallbackCfg, CfgSpoilt, CfgFails, boot, ota
<1>11. CASE Start
  BY <1>11 DEF Start, boot, ota
<1>12. CASE ReadCfgFails
  BY <1>12 DEF ReadCfgFails, boot, ota
<1>13. CASE UnpackErasing
  BY <1>13 DEF UnpackErasing, EraseSome, boot, ota
<1>14. CASE UnpackFails
  BY <1>14 DEF UnpackFails, boot, ota
<1>15. CASE OtaStart
  BY <1>15 DEF OtaStart, boot, ota
<1>16. CASE OtaErasing
  BY <1>16 DEF OtaErasing, EraseSome, Area, Update, boot, ota
<1>17. CASE OtaErased
  BY <1>17 DEF OtaErased, Area, Update, boot, ota
<1>18. CASE OtaWrite
  BY <1>18 DEF OtaWrite, Area, Update, boot, ota
<1>19. CASE OtaEnd
  BY <1>19 DEF OtaEnd, boot, ota
<1>20. CASE OtaFails
  BY <1>20 DEF OtaFails, boot, ota
<1>21. CASE OtaCheck
  BY <1>21 DEF OtaCheck, Area, Update, boot, ota
<1>22. CASE OtaVerify
  BY <1>22 DEF OtaVerify, CfgSpoilt, CfgFails, Area, Update, boot, ota
<1>23. CASE Reset
  BY <1>23 DEF Reset, boot, ota
<1>24. CASE DecompressBreaks
  BY <1>24 DEF DecompressBreaks, CheckedAgain, boot, ota
<1>25. CASE UNCHANGED vars
  BY <1>25 DEF vars, boot, ota
<1> QED
  BY <1>1, <1>2, <1>3, <1>4, <1>5, <1>6, <1>7, <1>8, <1>9, <1>10, <1>11, <1>12, <1>13,
     <1>14, <1>15, <1>16, <1>17, <1>18, <1>19, <1>20, <1>21, <1>22, <1>23, <1>24,
     <1>25
     DEF Next, Boot

-----------------------------------------------------------------------------
LEMMA NextIInv == IInv /\ [Next]_vars => IInv'
BY TypeStep, RunningStep, CleanStep, PackedStep, CalmStep DEF IInv

LEMMA Invariant == Spec => []IInv
BY InitIInv, NextIInv, PTL DEF Spec

\* The areas, the configuration and the programs' variables keep their shape.
THEOREM TypeCorrect == Spec => []OtaTypeOK
<1>1. IInv => OtaTypeOK
  BY DEF IInv, TInv
<1> QED BY <1>1, Invariant, PTL

\* ota_get_update_seq never gives the application the area it runs from, if
\* the configuration was read by image_init and written by the bootloader.
THEOREM RunningKeptAlways == Spec => []RunningKept
<1>1. IInv => RunningKept
  BY DEF IInv, TInv, OtaTypeOK, RInv, RunningKept, Updating, Area, Update, Seqs
<1> QED BY <1>1, Invariant, PTL

\* Wherever power goes in an update, an unpacking or a write of the
\* configuration, the image the configuration names is whole; after an image
\* that was checked and did not unpack (main.c:429-456) that is so of area 1.
THEOREM VerifiedIsWholeAlways == Spec => []VerifiedIsWhole
<1>1. IInv => VerifiedIsWhole
  BY DEF IInv, CInv, XInv, Named, VerifiedIsWhole
<1> QED BY <1>1, Invariant, PTL

\* The bootloader finds an image to start, unless flash or memory failed or an
\* image that was checked did not unpack.
THEOREM AlwaysBootsAlways == Spec => []AlwaysBoots
<1>1. IInv => AlwaysBoots
  BY DEF IInv, CInv, AInv, AlwaysBoots
<1> QED BY <1>1, Invariant, PTL

\* No reset starts an image older than the one ota_verify_image committed.
THEOREM NoDowngradeAlways == Spec => []NoDowngrade
<1>1. IInv => NoDowngrade
  BY OtaAssumption DEF IInv, TInv, OtaTypeOK, CInv, Named, NoDowngrade, Seqs, Bad
<1> QED BY <1>1, Invariant, PTL

-----------------------------------------------------------------------------
(* Update and boot implement AtomicUpdate *)

\* The version that boots next, and the one that runs.
NextVer == IF img[Named].part = Whole THEN img[Named].ver ELSE MaxVer + 1
RunsVer == IF On THEN img[running].ver ELSE 0

LEMMA DeviceInit == Init => Device!Init
<1> SUFFICES ASSUME Init PROVE Device!Init
  OBVIOUS
<1>1. img[0].ver = 0 /\ img[0].part = Whole /\ Named = 0
  BY DEF Init, Seqs, Named
<1>2. ~On
  BY DEF Init, On, Updating
<1> QED BY <1>1, <1>2 DEF Init, Device!Init

\* Without a fault, steps of the bootloader until the application starts leave
\* the version that boots next.
LEMMA BootVer ==
  ASSUME IInv, IInv', faults' = {}, Boot \/ UnpackErasing \/ DecompressBreaks \/ UnpackFails \/ ReadCfgFails,
         ~Start
  PROVE  ~On /\ ~On' /\ NextVer' = NextVer /\ UNCHANGED <<ver, committed>>
<1> USE OtaAssumption DEF IInv, TInv, OtaTypeOK, CInv, Named, NextVer, Seqs, Bad, None, Some, Whole,
        Go, Fault, On, Updating, boot, ota
<1>1. CASE PowerOn \/ ReadCfg \/ ReadCfgFails
  BY <1>1 DEF PowerOn, ReadCfg, ReadCfgFails
<1>2. CASE UnpackErase
  BY <1>2 DEF UnpackErase
<1>3. CASE Decompress
  BY <1>3 DEF Decompress
<1>4. CASE DecompressDone \/ DecompressBreaks \/ UnpackFails
  BY <1>4 DEF DecompressDone, DecompressBreaks, CheckedAgain, UnpackFails
<1>5. CASE UnpackedCfg
  BY <1>5 DEF UnpackedCfg, CfgSpoilt, CfgFails
<1>6. CASE Load \/ LoadOther \/ LoadNone
  BY <1>6 DEF Load, LoadOther, LoadNone
<1>7. CASE FallbackCfg
  BY <1>7 DEF FallbackCfg, CfgSpoilt, CfgFails
<1>8. CASE UnpackErasing
  BY <1>8 DEF UnpackErasing, EraseSome
<1> QED BY <1>1, <1>2, <1>3, <1>4, <1>5, <1>6, <1>7, <1>8 DEF Boot

LEMMA DeviceStutter ==
  ASSUME UNCHANGED <<ver, committed>>, On' <=> On, RunsVer' = RunsVer, NextVer' = NextVer,
         faults = {}, faults' = {}
  PROVE  UNCHANGED Device!vars
<1>1. (faults # {})' = (faults # {})
  OBVIOUS
<1>2. On' = On
  BY DEF On, Updating
<1> QED BY <1>1, <1>2 DEF Device!vars, NextVer, RunsVer

\* The application that image_init starts is the one the configuration names.
LEMMA DeviceStart ==
  ASSUME IInv, IInv', faults = {}, faults' = {}, Start
  PROVE  Device!Next
<1> USE OtaAssumption DEF Go, Fault, Seqs, Bad, boot, ota
<1>1. /\ ~On /\ On' /\ running' = loadSeq /\ cfg = loadSeq
      /\ UNCHANGED <<img, cfg, ver, committed>>
  BY DEF Start, On, Updating, IInv, CInv
<1>2. Named = loadSeq /\ Named' = Named /\ img[loadSeq].part = Whole
  BY <1>1 DEF Named, IInv, CInv, TInv, OtaTypeOK
<1>3. RunsVer' = NextVer /\ NextVer' = NextVer
  BY <1>1, <1>2 DEF RunsVer, NextVer
<1>4. Device!Start
  BY <1>1, <1>3 DEF Device!Start, RunsVer, NextVer
<1> QED BY <1>4 DEF Device!Next

\* A download goes to the area that neither runs nor is configured.
LEMMA DownloadVer ==
  ASSUME IInv, faults = {}, mode \in {"otaErase", "otaWrite", "otaCheck"}
  PROVE  /\ Named = running /\ Area # running /\ Area \in Seqs /\ running \in Seqs
         /\ img[running].part = Whole /\ NextVer = RunsVer
<1> USE OtaAssumption DEF Seqs, Bad
<1>1. Named = running /\ running \in Seqs /\ img[running].part = Whole
  BY DEF IInv, TInv, OtaTypeOK, CInv, Named
<1>2. runningSeq = running
  BY DEF IInv, RInv, Updating
<1>3. Area # running /\ Area \in Seqs
  BY <1>1, <1>2 DEF Area, Update
<1> QED BY <1>1, <1>3 DEF NextVer, RunsVer, On, Updating

LEMMA DeviceDownload ==
  ASSUME IInv, faults = {}, faults' = {},
         OtaStart \/ OtaErasing \/ OtaErased \/ OtaWrite \/ OtaEnd \/ OtaFails \/ OtaCheck
  PROVE  Device!Next \/ UNCHANGED Device!vars
<1> USE DEF Go, boot, ota
<1>1. On /\ On'
  BY DEF On, Updating, OtaStart, OtaErasing, OtaErased, OtaWrite, OtaEnd, OtaFails, OtaCheck,
         EraseSome
<1>2. UNCHANGED <<cfg, running, committed>> /\ Named' = Named
  BY DEF OtaStart, OtaErasing, OtaErased, OtaWrite, OtaEnd, OtaFails, OtaCheck, EraseSome, Named
<1>3. CASE OtaStart \/ OtaEnd \/ OtaFails \/ OtaCheck
  <2>1. UNCHANGED <<img, ver>>
    BY <1>3 DEF OtaStart, OtaEnd, OtaFails, OtaCheck
  <2> QED BY <1>1, <1>2, <2>1, DeviceStutter DEF NextVer, RunsVer
<1>4. CASE OtaErasing \/ OtaWrite
  <2>1. /\ mode \in {"otaErase", "otaWrite"} /\ ver' = ver
        /\ \E p : img' = [img EXCEPT ![Area].part = p]
    BY <1>4 DEF OtaErasing, EraseSome, OtaWrite
  <2>2. img'[running] = img[running]
    BY <2>1, DownloadVer DEF IInv, TInv, OtaTypeOK
  <2> QED BY <1>1, <1>2, <2>1, <2>2, DownloadVer, DeviceStutter DEF NextVer, RunsVer
<1>5. CASE OtaErased
  <2>1. mode = "otaErase" /\ ver' = ver + 1
    BY <1>5 DEF OtaErased
  <2>2. img'[running] = img[running]
    BY <1>5, <2>1, DownloadVer DEF OtaErased, IInv, TInv, OtaTypeOK
  <2>3. RunsVer = NextVer /\ RunsVer' = RunsVer /\ NextVer' = NextVer
    BY <1>1, <1>2, <2>1, <2>2, DownloadVer DEF NextVer, RunsVer
  <2>4. Device!Download
    BY <1>1, <1>2, <2>1, <2>3 DEF Device!Download, NextVer, RunsVer
  <2> QED BY <2>4 DEF Device!Next
<1> QED BY <1>3, <1>4, <1>5

\* The update takes place when the configuration names the new image, or when
\* it is spoilt on the way and the new image is the one in area 0.
LEMMA DeviceVerify ==
  ASSUME IInv, IInv', faults = {}, faults' = {}, OtaVerify
  PROVE  Device!Next \/ UNCHANGED Device!vars
<1> USE OtaAssumption DEF Seqs, Bad, Go, boot, ota
<1>1. /\ mode = "otaVerify" /\ mode' \in {"otaVerify", "app"} /\ On /\ On'
      /\ UNCHANGED <<img, running, ver>> /\ RunsVer' = RunsVer
  BY DEF OtaVerify, CfgSpoilt, CfgFails, Fault, On, Updating, RunsVer
<1>2. /\ cfg \in {running, Bad} /\ running \in Seqs /\ Area \in Seqs /\ Area # running
      /\ img[Area].part = Whole /\ img[Area].ver = ver
  BY <1>1 DEF IInv, TInv, OtaTypeOK, CInv, RInv, Updating, Area, Update
<1>3. ASSUME Named' = Area, committed' \in {committed, ver} PROVE Device!Next
  <2>1. NextVer' = ver
    BY <1>1, <1>2, <1>3 DEF NextVer
  <2>2. Device!Switch
    BY <1>1, <1>3, <2>1 DEF Device!Switch, NextVer, RunsVer
  <2> QED BY <2>2 DEF Device!Next
<1>4. CASE CfgSpoilt
  <2>1. Named' = 0 /\ cfg = running /\ committed' = committed
    BY <1>2, <1>4 DEF CfgSpoilt, Named
  <2>2. CASE running = 0
    <3>1. NextVer' = NextVer
      BY <1>1, <2>1, <2>2 DEF NextVer, Named
    <3> QED BY <1>1, <2>1, <3>1, DeviceStutter
  <2>3. CASE running # 0
    BY <1>2, <1>3, <2>1, <2>3
  <2> QED BY <2>2, <2>3
<1>5. CASE cfg' = Area /\ committed' = img[Area].ver
  BY <1>2, <1>3, <1>5 DEF Named
<1>6. CfgSpoilt \/ (cfg' = Area /\ committed' = img[Area].ver)
  BY DEF OtaVerify, CfgFails, Fault
<1> QED BY <1>4, <1>5, <1>6

LEMMA DeviceReset ==
  ASSUME faults = {}, faults' = {}, Reset
  PROVE  Device!Next \/ UNCHANGED Device!vars
<1>1. UNCHANGED <<img, cfg, ver, committed>> /\ ~On'
  BY DEF Reset, On, Updating
<1>2. NextVer' = NextVer /\ RunsVer' = 0
  BY <1>1 DEF NextVer, RunsVer, Named
<1>3. CASE On
  <2>1. Device!PowerOff
    BY <1>1, <1>2, <1>3 DEF Device!PowerOff, NextVer, RunsVer
  <2> QED BY <2>1 DEF Device!Next
<1>4. CASE ~On
  BY <1>1, <1>2, <1>4, DeviceStutter DEF RunsVer
<1> QED BY <1>3, <1>4

\* However many cuts of power an update and the boots after it go through, the
\* version that boots changes in one step, to the one downloaded.
THEOREM UpdateImplemented == Spec => ImplementsUpdate
<1>1. IInv /\ IInv' /\ [Next]_vars => [Device!Next]_Device!vars
  <2> SUFFICES ASSUME IInv, IInv', [Next]_vars
               PROVE  Device!Next \/ UNCHANGED Device!vars
    OBVIOUS
  <2>1. CASE faults' # {}
    BY <2>1 DEF Device!Next, Device!Break
  <2>2. CASE faults' = {}
    <3>1. faults = {}
      BY <2>2 DEF Next, Boot, Go, Fault, vars, PowerOn, ReadCfg, ReadCfgFails, UnpackErase,
                  UnpackErasing, EraseSome, Decompress, DecompressDone, DecompressBreaks, UnpackFails,
                  UnpackedCfg, CfgSpoilt, CfgFails, Load, LoadOther, LoadNone, FallbackCfg,
                  Start, OtaStart, OtaErasing, OtaErased, OtaWrite, OtaEnd, OtaFails, OtaCheck,
                  OtaVerify, Reset
    <3>2. CASE Start
      BY <2>2, <3>1, <3>2, DeviceStart
    <3>3. CASE ~Start /\ (Boot \/ UnpackErasing \/ DecompressBreaks \/ UnpackFails \/ ReadCfgFails)
      BY <2>2, <3>1, <3>3, BootVer, DeviceStutter DEF RunsVer
    <3>4. CASE OtaStart \/ OtaErasing \/ OtaErased \/ OtaWrite \/ OtaEnd \/ OtaFails \/ OtaCheck
      BY <2>2, <3>1, <3>4, DeviceDownload
    <3>5. CASE OtaVerify
      BY <2>2, <3>1, <3>5, DeviceVerify
    <3>6. CASE Reset
      BY <2>2, <3>1, <3>6, DeviceReset
    <3>7. CASE UNCHANGED vars
      BY <2>2, <3>1, <3>7, DeviceStutter
      DEF vars, boot, ota, NextVer, RunsVer, Named, On, Updating
    <3> QED BY <3>2, <3>3, <3>4, <3>5, <3>6, <3>7 DEF Next
  <2> QED BY <2>1, <2>2
<1> QED BY <1>1, DeviceInit, Invariant, PTL DEF Spec, ImplementsUpdate, Device!Spec
=============================================================================
