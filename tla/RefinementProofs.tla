-------------------------- MODULE RefinementProofs --------------------------
(***************************************************************************)
(* In a clean environment a session implements the abstract transfer.      *)
(***************************************************************************)
EXTENDS TransferProofs

\* Every reported file is stored whole: the mapping's store is reported.
LEMMA StoredIsReported == Inv => Stored = reported
  BY DEF Inv, DownloadFaithful, Stored

LEMMA StoredIsReportedNext == Inv' => Stored' = reported'
  BY DEF Inv, DownloadFaithful, Stored

LEMMA RefinementInit == Init => Abstract!Init
  BY DEF Init, Abstract!Init, Phase, Stored

\* What the mapping makes of a state.
LEMMA PhaseCases ==
  /\ cpc \in {"menu", "list"} => Phase = "away"
  /\ cpc = "prompt" => Phase = "idle"
  /\ cpc \in {"first", "rest", "spin"} => Phase = "waiting"
  /\ cpc \in {"closed", "crashed"} => Phase = "gone"
  BY DEF Phase

LEMMA PhaseCasesNext ==
  /\ cpc' \in {"menu", "list"} => Phase' = "away"
  /\ cpc' = "prompt" => Phase' = "idle"
  /\ cpc' \in {"first", "rest", "spin"} => Phase' = "waiting"
  /\ cpc' \in {"closed", "crashed"} => Phase' = "gone"
  BY DEF Phase

\* A step of the session, seen through the mapping.
LEMMA RefinementClient ==
  ASSUME CleanEnvironment, Inv, Inv', ClientStep
  PROVE  [Abstract!Next]_(Abstract!vars)
<1> USE StoredIsReported, StoredIsReportedNext, PhaseCases, PhaseCasesNext
<1>0. want \in Names \cup {NoName} /\ (cpc \in {"first", "rest"} => want \in Names)
  BY DEF Inv, TypeInv, TypeOK
<1>1. CASE recv_and_display_file_list \/ NoListing
  <2>1. /\ cpc = "list" /\ cpc' = "prompt" /\ UNCHANGED <<want, reported, conn>>
    BY <1>1 DEF recv_and_display_file_list, NoListing, clientVars
  <2>2. Abstract!Join
    BY <2>1 DEF Abstract!Join
  <2> QED
    BY <2>2 DEF Abstract!Next
<1>2. CASE ReplyMissing
  <2>1. PICK k \in 1..Len(s2c) : SubSeq(s2c, 1, k) = Msg
    BY <1>2 DEF ReplyMissing
  <2>2. cpc = "first" /\ k \in Nat \ {0}
    BY <1>2, LenProperties DEF ReplyMissing, Inv, TypeInv, TypeOK
  <2>3. Data(want, 0, k) # Msg
    BY <1>0, <2>2, DataIsNotMsg
  <2>4. ~ Present(InitDir, want)
    BY <2>1, <2>2, <2>3, FirstAnswer DEF MsgOnWay
  <2>5. cpc' = "prompt" /\ UNCHANGED <<want, reported, conn>>
    BY <1>2 DEF ReplyMissing
  <2>6. Abstract!Refuse
    BY <2>2, <2>4, <2>5 DEF Abstract!Refuse
  <2> QED
    BY <2>6 DEF Abstract!Next
<1>3. CASE FirstChunk \/ NextChunk
  <2>1. /\ cpc \in {"first", "rest"} /\ UNCHANGED <<want, conn, dir>>
        /\ \/ cpc' = "prompt" /\ reported' = reported \cup {want}
           \/ cpc' = "rest" /\ reported' = reported \ {want}
    BY <1>3 DEF FirstChunk, NextChunk, CheckTotal, dirVars
  <2>2. CASE cpc' = "prompt" /\ reported' = reported \cup {want}
    <3>1. Present(dir', want)
      BY <2>1, <2>2 DEF Inv, DownloadFaithful
    <3>2. Present(InitDir, want)
      BY <2>1, <3>1 DEF Inv, TransferInv, HostInv
    <3>3. Abstract!Deliver
      BY <1>0, <2>1, <2>2, <3>2 DEF Abstract!Deliver
    <3> QED
      BY <3>3 DEF Abstract!Next
  <2>3. CASE cpc' = "rest" /\ reported' = reported \ {want}
    <3>1. Abstract!Begin
      BY <2>1, <2>3 DEF Abstract!Begin
    <3> QED
      BY <3>1 DEF Abstract!Next
  <2> QED
    BY <2>1, <2>2, <2>3
<1>4. CASE NoReply
  <2>1. cpc = "first" /\ cpc' = "prompt" /\ conn # "open" /\ UNCHANGED <<want, reported, conn>>
    BY <1>4 DEF NoReply, EndOfStream
  <2>2. Abstract!Refuse
    BY <2>1 DEF Abstract!Refuse
  <2> QED
    BY <2>2 DEF Abstract!Next
<1>5. CASE Spin
  BY <1>5 DEF Spin, clientVars, Abstract!vars
<1>6. ~ RecvError /\ ~ CreateFails
  BY DEF RecvError, CreateFails, Inv, NeverReset, CleanEnvironment
<1> QED
  BY <1>1, <1>2, <1>3, <1>4, <1>5, <1>6 DEF ClientStep

\* The steps of the user, of the listener and of the environment.
LEMMA RefinementOther ==
  ASSUME CleanEnvironment, Inv, Inv', UserStep \/ ServerStep \/ Environment
  PROVE  [Abstract!Next]_(Abstract!vars)
<1> USE StoredIsReported, StoredIsReportedNext, PhaseCases, PhaseCasesNext
<1>1. CASE Connect
  <2>1. Abstract!Connect
    BY <1>1 DEF Connect, clientVars, Abstract!Connect
  <2> QED
    BY <2>1 DEF Abstract!Next
<1>2. CASE ConnectFails
  BY <1>2 DEF ConnectFails, clientVars, Inv, NeverReset, Abstract!vars
<1>3. CASE Exit \/ ClientDies
  <2>1. Abstract!Leave
    BY <1>3 DEF Exit, ClientDies, clientVars, Abstract!Leave
  <2> QED
    BY <2>1 DEF Abstract!Next
<1>4. ASSUME NEW n \in Typed, Request(n) PROVE [Abstract!Next]_(Abstract!vars)
  <2>1. Abstract!Ask(n) /\ n \in Names
    BY <1>4, NamesAssumption DEF Request, Abstract!Ask
  <2> QED
    BY <2>1 DEF Abstract!Next
<1>5. ASSUME UNCHANGED <<cpc, want, reported>>, conn' = conn \/ conn' # "open"
      PROVE  [Abstract!Next]_(Abstract!vars)
  <2>1. Phase' = Phase
    BY <1>5 DEF Phase
  <2>2. CASE (conn' = "open") = (conn = "open")
    BY <1>5, <2>1, <2>2 DEF Abstract!vars
  <2>3. CASE conn = "open" /\ conn' # "open"
    <3>1. Abstract!Break
      BY <1>5, <2>1, <2>3 DEF Abstract!Break
    <3> QED
      BY <3>1 DEF Abstract!Next
  <2> QED
    BY <1>5, <2>2, <2>3
<1>6. CASE ServerStep
  <2>1. UNCHANGED <<cpc, want, reported>> /\ (conn' = conn \/ conn' # "open")
    BY <1>6 DEF ServerStep, Accept, send_file_list, create_file_list, SendMessage, OpenFile,
                OpenFails, SendChunk, EndOfFile, SendFails, Disconnect, clientVars
  <2> QED
    BY <2>1, <1>5
<1>7. CASE AcceptFails \/ \E how \in {"fin", "rst"} : HostDies(how)
  <2>1. UNCHANGED <<cpc, want, reported>> /\ (conn' = conn \/ conn' # "open")
    BY <1>7 DEF AcceptFails, HostDies, clientVars
  <2> QED
    BY <2>1, <1>5
<1>8. ~ EditDir
  BY DEF EditDir, CleanEnvironment, Inv, TypeInv, TypeOK
<1> QED
  BY <1>1, <1>2, <1>3, <1>4, <1>6, <1>7, <1>8 DEF UserStep, Environment

(***************************************************************************)
(* For every upload directory, every size of file and buffer, every cut of *)
(* the answers, and clients and hosts that go away at any point,           *)
(* download_files and the listener implement the abstract transfer: a      *)
(* request ends with the whole file, with a refusal of a name that is not  *)
(* listed, or with the connection gone.                                    *)
(***************************************************************************)
THEOREM RefinementTheorem ==
  ASSUME CleanEnvironment
  PROVE  Spec => TransferRefines
<1>1. Init => Inv /\ Abstract!Init
  BY InvInit, RefinementInit
<1>2. Inv /\ [Next]_vars => Inv'
  BY TransferStep
<1>3. Inv /\ Inv' /\ [Next]_vars => [Abstract!Next]_(Abstract!vars)
  <2> SUFFICES ASSUME Inv, Inv', [Next]_vars PROVE [Abstract!Next]_(Abstract!vars)
    OBVIOUS
  <2>1. CASE UNCHANGED vars
    BY <2>1 DEF vars, clientVars, dirVars, Abstract!vars, Phase, Stored
  <2> QED
    BY <2>1, RefinementClient, RefinementOther DEF Next
<1> QED
  BY <1>1, <1>2, <1>3, PTL DEF Spec, TransferRefines, Abstract!Spec
=============================================================================
