--------------------------- MODULE AtClientProofs ---------------------------
(***************************************************************************)
(* Safety of the AT client for any number of commands and any answers of   *)
(* the modem.                                                              *)
(***************************************************************************)
EXTENDS AtClient, SequenceTheorems, TLAPS

Bit(b) == IF b THEN 1 ELSE 0

\* A notice that the parser has released or may still release for the response object it
\* holds.  Only a call that has not yet taken its own notice may see two of them.
Notices == resp_notice + Bit(client.resp)

TwoNotices ==
    call.pc = "sent" \/ (call.pc = "begun" /\ (call.op = "exec" \/ call.cmd = 0))

NoticesBounded == Notices <= IF TwoNotices THEN 2 ELSE 1

WaitsForNotice == call.pc = "waiting" => resp_notice = 0

\* The status a call will check is its own.
StatusHasCause ==
    /\ call.op = "exec" /\ call.pc \in {"begun", "sent", "waiting", "woken"}
           /\ client.resp_status # "OK" => call.ended \/ call.dropped
    /\ call.pc \in {"free", "exit"} /\ call.result = "ERROR" => call.ended \/ call.dropped

MayWrite == call.pc = "begun" /\ call.op = "exec" => sent < MaxSent

\* Between calls client->resp is cleared.
RespReset == call.pc = "idle" => ~client.resp

IInv ==
    /\ TypeOK
    /\ NoticesBounded
    /\ WaitsForNotice
    /\ StatusHasCause
    /\ MayWrite
    /\ RespReset
-----------------------------------------------------------------------------
\* The lines of an answer are lines.
LEMMA LinesType ==
    ASSUME NEW cmd \in 0 .. MaxSent, NEW answer \in Answers
    PROVE  Lines(cmd, answer) \in Seq(AllLines)
PROOF
<1>1. answer \in Seq(Kinds)
  BY AtClientAssumption
<1>2. /\ Len(answer) \in Nat
      /\ DOMAIN answer = 1 .. Len(answer)
      /\ \A i \in 1 .. Len(answer) : answer[i] \in Kinds
  BY <1>1, LenProperties, ElementOfSeq
<1>3. \A i \in 1 .. Len(answer) : Line(cmd, answer[i]) \in AllLines
  BY <1>2 DEF Line, AllLines
<1>4. Lines(cmd, answer) \in [1 .. Len(answer) -> AllLines]
  BY <1>2, <1>3 DEF Lines
<1> QED BY <1>2, <1>4, SeqDef

\* Writing a command (at_obj_exec_cmd, at_client_obj_wait_connect) keeps the types.
LEMMA WriteType ==
    ASSUME TypeOK, sent < MaxSent, NEW answer \in Answers, Write(answer)
    PROVE  wire' \in Seq(AllLines) /\ sent' \in 0 .. MaxSent
PROOF
<1>1. MaxSent \in Nat /\ sent \in 0 .. MaxSent
  BY AtClientAssumption DEF TypeOK
<1>2. sent + 1 \in 0 .. MaxSent
  BY <1>1
<1>3. Lines(sent + 1, answer) \in Seq(AllLines)
  BY <1>2, LinesType
<1>4. wire \in Seq(AllLines) /\ wire' = wire \o Lines(sent + 1, answer) /\ sent' = sent + 1
  BY DEF TypeOK, Write
<1> QED BY <1>2, <1>3, <1>4, ConcatProperties
-----------------------------------------------------------------------------
\* What at_create_resp and the fresh call records hold.
LEMMA Fresh ==
    /\ NoResp \in RespObjects
    /\ Idle \in CallRecords
    /\ \A b \in BOOLEAN : [resp |-> b, resp_status |-> "OK"] \in ClientRecords
PROOF
<1>1. <<>> \in Seq(AllLines)
  BY EmptySeq
<1> QED BY <1>1 DEF NoResp, Idle, RespObjects, CallRecords, ClientRecords

\* The device starts with nothing received and nobody calling (at_client_para_init).
LEMMA IInvInit == Init => IInv
PROOF
<1> SUFFICES ASSUME Init PROVE IInv
  OBVIOUS
<1>1. <<>> \in Seq(AllLines) /\ MaxSent \in Nat /\ MaxUrc \in Nat
  BY EmptySeq, AtClientAssumption
<1>2. client = [resp |-> FALSE, resp_status |-> "OK"] /\ call = Idle /\ resp = NoResp
  BY DEF Init
<1>3. client \in ClientRecords /\ resp \in RespObjects /\ call \in CallRecords
  BY <1>2, Fresh
<1>4. /\ wire = <<>> /\ rx = <<>> /\ rx_notice = 0 /\ resp_notice = 0 /\ parser = "read"
      /\ sent = 0 /\ urcs = 0 /\ spoiled = FALSE
  BY DEF Init
<1>5. TypeOK
  <2>1. sent \in 0 .. MaxSent /\ urcs \in 0 .. MaxUrc /\ rx_notice \in Nat /\ resp_notice \in Nat
    BY <1>1, <1>4
  <2>2. spoiled \in BOOLEAN /\ wire \in Seq(AllLines) /\ rx \in Seq(AllLines)
    BY <1>1, <1>4
  <2> QED BY <1>3, <1>4, <2>1, <2>2 DEF TypeOK
<1> QED BY <1>2, <1>5 DEF Init, IInv, Idle, NoticesBounded, Notices, Bit, TwoNotices,
                    WaitsForNotice, StatusHasCause, MayWrite, RespReset

\* Steps that leave the call, the client and the semaphore resp_notice alone.
LEMMA UartStep ==
    ASSUME IInv, TypeOK', UNCHANGED <<client, call, resp_notice, sent>>
    PROVE  IInv'
PROOF
  BY DEF IInv, NoticesBounded, Notices, Bit, TwoNotices, WaitsForNotice, StatusHasCause,
         MayWrite, RespReset

\* UrcSent, at_client_rx_ind and what at_client_getchar does around its semaphore.
LEMMA ReceiveStep ==
    ASSUME IInv, UrcSent \/ at_client_rx_ind \/ ReadNothing \/ ResetNotice \/ TakeNotice
                 \/ SkipLine
    PROVE  IInv'
PROOF
<1> USE DEF IInv
<1>0. MaxUrc \in Nat /\ TypeOK /\ Line(0, "urc") \in AllLines
  BY AtClientAssumption DEF Line, AllLines, Kinds
<1>1. CASE UrcSent
  <2>1. wire' \in Seq(AllLines) /\ urcs' \in 0 .. MaxUrc
    BY <1>0, <1>1, AppendProperties DEF UrcSent, TypeOK
  <2>2. TypeOK' /\ UNCHANGED <<client, call, resp_notice, sent>>
    BY <1>0, <1>1, <2>1 DEF UrcSent, TypeOK
  <2> QED BY <2>2, UartStep
<1>2. CASE at_client_rx_ind
  <2>1. /\ wire' \in Seq(AllLines) /\ rx' \in Seq(AllLines)
    BY <1>0, <1>2, HeadTailProperties, AppendProperties DEF at_client_rx_ind, TypeOK
  <2>2. TypeOK' /\ UNCHANGED <<client, call, resp_notice, sent>>
    BY <1>0, <1>2, <2>1 DEF at_client_rx_ind, TypeOK
  <2> QED BY <2>2, UartStep
<1>3. CASE ReadNothing
  <2>1. TypeOK' /\ UNCHANGED <<client, call, resp_notice, sent>>
    BY <1>0, <1>3 DEF ReadNothing, TypeOK
  <2> QED BY <2>1, UartStep
<1>4. CASE ResetNotice
  <2>1. TypeOK' /\ UNCHANGED <<client, call, resp_notice, sent>>
    BY <1>0, <1>4 DEF ResetNotice, TypeOK
  <2> QED BY <2>1, UartStep
<1>5. CASE TakeNotice
  <2>1. TypeOK' /\ UNCHANGED <<client, call, resp_notice, sent>>
    BY <1>0, <1>5 DEF TakeNotice, TypeOK
  <2> QED BY <2>1, UartStep
<1>6. CASE SkipLine
  <2>1. rx' \in Seq(AllLines)
    BY <1>0, <1>6, HeadTailProperties DEF SkipLine, ReadLine, TypeOK
  <2>2. TypeOK' /\ UNCHANGED <<client, call, resp_notice, sent>>
    BY <1>0, <1>6, <2>1 DEF SkipLine, ReadLine, TypeOK
  <2> QED BY <2>2, UartStep
<1> QED BY <1>1, <1>2, <1>3, <1>4, <1>5, <1>6
-----------------------------------------------------------------------------
\* The end of a response turns a notice that was to come into one that is there, or wakes
\* the waiting call with it.
LEMMA EndResponseStep ==
    ASSUME IInv, client.resp, NEW status \in {"OK", "ERROR"}, EndResponse(status)
    PROVE  /\ client' \in ClientRecords
           /\ call' \in CallRecords
           /\ resp_notice' \in Nat
           /\ ~client'.resp
           /\ call'.ended
           /\ call'.op = call.op /\ call'.cmd = call.cmd
           /\ \/ /\ call.pc = "waiting" /\ call'.pc = "woken"
                 /\ resp_notice' = resp_notice
              \/ /\ call.pc # "waiting" /\ call'.pc = call.pc
                 /\ resp_notice' = resp_notice + 1
PROOF
<1>1. TypeOK
  BY DEF IInv
<1>2. (call.dropped \/ ~Fits(resp)) \in BOOLEAN
  OBVIOUS
<1>3. CASE call.pc = "waiting"
  <2>1. /\ client' = [resp |-> FALSE, resp_status |-> status]
        /\ call' = [call EXCEPT !.pc = "woken", !.ended = TRUE, !.dropped = @ \/ ~Fits(resp)]
        /\ resp_notice' = resp_notice
    BY <1>3 DEF EndResponse
  <2>2. client' \in ClientRecords /\ ~client'.resp
    BY <2>1 DEF ClientRecords
  <2>3. call' \in CallRecords /\ call'.ended /\ call'.op = call.op /\ call'.cmd = call.cmd
    BY <1>1, <1>2, <2>1 DEF TypeOK, CallRecords
  <2>4. resp_notice' \in Nat
    BY <1>1, <2>1 DEF TypeOK
  <2>5. call'.pc = "woken"
    BY <1>1, <2>1 DEF TypeOK, CallRecords
  <2> QED BY <1>3, <2>1, <2>2, <2>3, <2>4, <2>5
<1>4. CASE call.pc # "waiting"
  <2>1. /\ client' = [resp |-> FALSE, resp_status |-> status]
        /\ call' = [call EXCEPT !.ended = TRUE, !.dropped = @ \/ ~Fits(resp)]
        /\ resp_notice' = resp_notice + 1
    BY <1>4 DEF EndResponse
  <2>2. client' \in ClientRecords /\ ~client'.resp
    BY <2>1 DEF ClientRecords
  <2>3. call' \in CallRecords /\ call'.ended /\ call'.op = call.op /\ call'.cmd = call.cmd
    BY <1>1, <1>2, <2>1 DEF TypeOK, CallRecords
  <2>4. resp_notice' \in Nat
    BY <1>1, <2>1 DEF TypeOK
  <2>5. call'.pc = call.pc
    BY <1>1, <2>1 DEF TypeOK, CallRecords
  <2> QED BY <1>4, <2>1, <2>2, <2>3, <2>4, <2>5
<1> QED BY <1>3, <1>4

\* A line of a response (client_parser).
LEMMA ParseStep ==
    ASSUME IInv, ParseLine
    PROVE  IInv'
PROOF
<1>1. TypeOK /\ client.resp /\ rx \in Seq(AllLines) /\ rx # <<>>
  BY DEF IInv, TypeOK, ParseLine, ReadLine
<1>2. rx' \in Seq(AllLines) /\ Head(rx) \in AllLines
  BY <1>1, HeadTailProperties DEF ParseLine, ReadLine
<1>3. resp' \in RespObjects
  <2>1. Append(resp.lines, Head(rx)) \in Seq(AllLines)
    BY <1>1, <1>2, AppendProperties DEF TypeOK, RespObjects
  <2> QED BY <1>1, <2>1 DEF ParseLine, Store, TypeOK, RespObjects
<1>4. UNCHANGED <<wire, rx_notice, parser, sent, urcs, spoiled>>
  BY DEF ParseLine
<1>5. CASE EndResponse("OK") \/ EndResponse("ERROR")
  <2>1. PICK status \in {"OK", "ERROR"} : EndResponse(status)
    BY <1>5
  <2>2. TypeOK'
    BY <1>1, <1>2, <1>3, <1>4, <2>1, EndResponseStep DEF TypeOK
  <2>3. NoticesBounded'
    BY <1>1, <2>1, EndResponseStep
       DEF IInv, TypeOK, NoticesBounded, Notices, Bit, TwoNotices, WaitsForNotice
  <2>4. WaitsForNotice' /\ StatusHasCause' /\ RespReset'
    BY <1>1, <2>1, EndResponseStep
       DEF IInv, WaitsForNotice, StatusHasCause, RespReset
  <2>5. MayWrite'
    BY <1>1, <1>4, <2>1, EndResponseStep DEF IInv, MayWrite
  <2> QED BY <2>2, <2>3, <2>4, <2>5 DEF IInv
<1>6. CASE /\ client' = [client EXCEPT !.resp_status = StatusAfterStore(resp)]
           /\ call' = [call EXCEPT !.dropped = @ \/ ~Fits(resp)]
           /\ UNCHANGED resp_notice
  <2>1. (call.dropped \/ ~Fits(resp)) \in BOOLEAN
    OBVIOUS
  <2>2. TypeOK'
    <3>1. client' \in ClientRecords
      BY <1>1, <1>6 DEF TypeOK, ClientRecords, StatusAfterStore
    <3>2. call' \in CallRecords
      BY <1>1, <1>6, <2>1 DEF TypeOK, CallRecords
    <3> QED BY <1>1, <1>2, <1>3, <1>4, <1>6, <3>1, <3>2 DEF TypeOK
  <2>3. /\ client'.resp = client.resp
        /\ \A f \in {"pc", "op", "cmd", "ended", "result"} : call'[f] = call[f]
    BY <1>1, <1>6 DEF TypeOK, ClientRecords, CallRecords
  <2>4. /\ NoticesBounded' /\ WaitsForNotice' /\ MayWrite' /\ RespReset'
    BY <1>4, <1>6, <2>3 DEF IInv, NoticesBounded, Notices, Bit, TwoNotices, WaitsForNotice,
                           MayWrite, RespReset
  <2>5. StatusHasCause'
    <3>1. call'.dropped = (call.dropped \/ ~Fits(resp))
      BY <1>1, <1>6 DEF TypeOK, CallRecords
    <3>2. client'.resp_status = IF Fits(resp) THEN client.resp_status ELSE "BUFF_FULL"
      BY <1>1, <1>6 DEF TypeOK, ClientRecords, StatusAfterStore
    <3> QED BY <2>3, <3>1, <3>2 DEF IInv, StatusHasCause
  <2> QED BY <2>2, <2>4, <2>5 DEF IInv
<1> QED BY <1>5, <1>6 DEF ParseLine
-----------------------------------------------------------------------------
\* at_obj_exec_cmd takes the lock: at most one stale notice is there, and its own to come.
LEMMA ExecBeginStep ==
    ASSUME IInv, NEW line_num \in LineNums, ExecBegin(line_num)
    PROVE  IInv'
PROOF
<1>1. TypeOK /\ line_num \in Nat
  BY AtClientAssumption DEF IInv
<1>2. /\ client' = [resp |-> TRUE, resp_status |-> "OK"]
      /\ call' = [Idle EXCEPT !.pc = "begun", !.op = "exec", !.resp = TRUE,
                              !.line_num = line_num, !.cmd = sent + 1]
      /\ UNCHANGED <<wire, rx, rx_notice, parser, urcs, resp_notice, sent, spoiled>>
      /\ call.pc = "idle" /\ sent < MaxSent
  BY DEF ExecBegin, uartVars
<1>3. resp' \in RespObjects
  BY <1>1, Fresh DEF ExecBegin, TypeOK, RespObjects
<1>4. TypeOK'
  <2>1. client' \in ClientRecords
    BY <1>2, Fresh
  <2>2. sent + 1 \in Nat
    BY <1>1, AtClientAssumption DEF TypeOK
  <2>3. call' \in CallRecords
    BY <1>1, <1>2, <2>2, Fresh DEF CallRecords
  <2> QED BY <1>1, <1>2, <1>3, <2>1, <2>3 DEF TypeOK
<1>5. call.pc = "idle" /\ ~client.resp /\ resp_notice <= 1
  BY <1>1, <1>2 DEF IInv, RespReset, NoticesBounded, Notices, Bit, TwoNotices, TypeOK
<1>6. call'.pc = "begun" /\ call'.op = "exec"
  BY <1>2 DEF Idle
<1>7. NoticesBounded'
  BY <1>1, <1>2, <1>5, <1>6 DEF NoticesBounded, Notices, Bit, TwoNotices, TypeOK
<1> QED BY <1>2, <1>4, <1>6, <1>7
        DEF IInv, WaitsForNotice, StatusHasCause, MayWrite, RespReset

\* at_obj_exec_cmd without a response object: the parser has nothing to end.
LEMMA ExecNoResponseStep ==
    ASSUME IInv, ExecNoResponse
    PROVE  IInv'
PROOF
<1>1. TypeOK /\ sent < MaxSent /\ call.pc = "idle"
  BY DEF IInv, ExecNoResponse
<1>2. /\ client' = [resp |-> FALSE, resp_status |-> "OK"]
      /\ call' = [Idle EXCEPT !.pc = "exit", !.op = "exec", !.cmd = sent + 1, !.result = "EOK"]
      /\ UNCHANGED <<rx, rx_notice, parser, urcs, resp_notice, resp>>
  BY DEF ExecNoResponse
<1>3. PICK answer \in Answers : Write(answer) /\ spoiled' = (spoiled \/ answer # <<>>)
  BY DEF ExecNoResponse
<1>4. wire' \in Seq(AllLines) /\ sent' \in 0 .. MaxSent /\ spoiled' \in BOOLEAN
  BY <1>1, <1>3, WriteType
<1>5. TypeOK'
  <2>1. client' \in ClientRecords
    BY <1>2, Fresh
  <2>2. sent + 1 \in Nat
    BY <1>1, AtClientAssumption DEF TypeOK
  <2>3. call' \in CallRecords
    BY <1>1, <1>2, <2>2, Fresh DEF CallRecords
  <2> QED BY <1>1, <1>2, <1>4, <2>1, <2>3 DEF TypeOK
<1>6. call'.pc = "exit" /\ call'.op = "exec" /\ call'.result = "EOK" /\ ~client'.resp
  BY <1>2 DEF Idle
<1>7. NoticesBounded'
  BY <1>1, <1>2, <1>6
     DEF IInv, RespReset, NoticesBounded, Notices, Bit, TwoNotices, TypeOK
<1> QED BY <1>5, <1>6, <1>7
        DEF IInv, WaitsForNotice, StatusHasCause, MayWrite, RespReset

\* The response object is emptied and the command written.
LEMMA ExecWriteStep ==
    ASSUME IInv, ExecWrite
    PROVE  IInv'
PROOF
<1>1. /\ TypeOK /\ sent < MaxSent
      /\ call.pc = "begun" /\ call.op = "exec"
  BY DEF IInv, MayWrite, ExecWrite
<1>2. /\ call' = [call EXCEPT !.pc = "sent"]
      /\ resp' = [resp EXCEPT !.lines = <<>>]
      /\ UNCHANGED <<rx, rx_notice, parser, urcs, client, resp_notice>>
  BY DEF ExecWrite
<1>3. PICK answer \in Answers :
        Write(answer) /\ spoiled' = (spoiled \/ call.line_num \in 1 .. Len(answer) - 1)
  BY DEF ExecWrite
<1>4. wire' \in Seq(AllLines) /\ sent' \in 0 .. MaxSent /\ spoiled' \in BOOLEAN
  BY <1>1, <1>3, WriteType
<1>5. TypeOK'
  <2>1. call' \in CallRecords
    BY <1>1, <1>2 DEF TypeOK, CallRecords
  <2>2. resp' \in RespObjects
    BY <1>1, <1>2, EmptySeq DEF TypeOK, RespObjects
  <2> QED BY <1>1, <1>2, <1>4, <2>1, <2>2 DEF TypeOK
<1>6. /\ call'.pc = "sent"
      /\ \A f \in {"op", "cmd", "ended", "dropped", "result"} : call'[f] = call[f]
  BY <1>1, <1>2 DEF TypeOK, CallRecords
<1>7. NoticesBounded'
  BY <1>1, <1>2, <1>6 DEF IInv, NoticesBounded, Notices, Bit, TwoNotices
<1> QED BY <1>1, <1>2, <1>5, <1>6, <1>7
        DEF IInv, WaitsForNotice, StatusHasCause, MayWrite, RespReset

\* rt_sem_take(client->resp_notice): a notice is used up, or there was none.
LEMMA TakeResponseStep ==
    ASSUME IInv, TakeResponse
    PROVE  IInv'
PROOF
<1>1. TypeOK /\ call.pc = "sent"
  BY DEF IInv, TakeResponse
<1>2. UNCHANGED <<wire, rx, rx_notice, parser, urcs, client, resp, sent, spoiled>>
  BY DEF TakeResponse, uartVars
<1>3. CASE /\ resp_notice > 0
           /\ resp_notice' = resp_notice - 1
           /\ call' = [call EXCEPT !.pc = "woken"]
  <2>1. TypeOK'
    <3>1. call' \in CallRecords
      BY <1>1, <1>3 DEF TypeOK, CallRecords
    <3>2. resp_notice' \in Nat
      BY <1>1, <1>3 DEF TypeOK
    <3> QED BY <1>1, <1>2, <3>1, <3>2 DEF TypeOK
  <2>2. /\ call'.pc = "woken"
        /\ \A f \in {"op", "cmd", "ended", "dropped", "result"} : call'[f] = call[f]
    BY <1>1, <1>3 DEF TypeOK, CallRecords
  <2>3. NoticesBounded'
    BY <1>1, <1>2, <1>3, <2>2 DEF IInv, NoticesBounded, Notices, Bit, TwoNotices, TypeOK
  <2> QED BY <1>1, <1>2, <2>1, <2>2, <2>3
          DEF IInv, WaitsForNotice, StatusHasCause, MayWrite, RespReset
<1>4. CASE /\ resp_notice = 0
           /\ call' = [call EXCEPT !.pc = "waiting"]
           /\ UNCHANGED resp_notice
  <2>1. TypeOK'
    <3>1. call' \in CallRecords
      BY <1>1, <1>4 DEF TypeOK, CallRecords
    <3>2. resp_notice' \in Nat
      BY <1>1, <1>4 DEF TypeOK
    <3> QED BY <1>1, <1>2, <3>1, <3>2 DEF TypeOK
  <2>2. /\ call'.pc = "waiting"
        /\ \A f \in {"op", "cmd", "ended", "dropped", "result"} : call'[f] = call[f]
    BY <1>1, <1>4 DEF TypeOK, CallRecords
  <2>3. NoticesBounded'
    BY <1>1, <1>2, <1>4, <2>2 DEF IInv, NoticesBounded, Notices, Bit, TwoNotices, TypeOK
  <2> QED BY <1>1, <1>2, <1>4, <2>1, <2>2, <2>3
          DEF IInv, WaitsForNotice, StatusHasCause, MayWrite, RespReset
<1> QED BY <1>3, <1>4 DEF TakeResponse

\* A step of the calling thread that only moves on inside the call, with the response object
\* and the notices left alone (the error paths and the way out of both functions).
LEMMA MoveStep ==
    ASSUME IInv, NEW pc \in {"expired", "begun", "free", "exit"},
           NEW result \in {"none", "EOK", "ERROR", "ETIMEOUT"},
           call' = [call EXCEPT !.pc = pc, !.result = result],
           call.pc \notin {"idle", "sent"}, ~TwoNotices,
           client' \in ClientRecords, client'.resp = client.resp,
           pc = "begun" => call.op = "connect",
           pc \in {"free", "exit"} /\ result = "ERROR" => call.ended \/ call.dropped,
           resp' \in RespObjects, spoiled' \in BOOLEAN,
           UNCHANGED <<wire, rx, rx_notice, parser, urcs, resp_notice, sent>>
    PROVE  IInv'
PROOF
<1>1. TypeOK
  BY DEF IInv
<1>2. call' \in CallRecords
  BY <1>1 DEF TypeOK, CallRecords
<1>3. TypeOK'
  BY <1>1, <1>2 DEF TypeOK
<1>4. /\ call'.pc = pc /\ call'.result = result
      /\ \A f \in {"op", "cmd", "ended", "dropped"} : call'[f] = call[f]
  BY <1>1 DEF TypeOK, CallRecords
<1>5. NoticesBounded'
  <2>1. Notices <= 1 /\ Notices' = Notices
    BY DEF IInv, NoticesBounded, Notices, Bit
  <2>2. Notices \in Nat
    BY <1>1 DEF TypeOK, Notices, Bit
  <2> QED BY <2>1, <2>2 DEF NoticesBounded
<1> QED BY <1>3, <1>4, <1>5 DEF IInv, WaitsForNotice, StatusHasCause, MayWrite, RespReset

\* The caller's timer runs out: it has seen no notice, and one at most is to come.
LEMMA TimeoutStep ==
    ASSUME IInv, Timeout
    PROVE  IInv'
PROOF
<1>1. TypeOK /\ call.pc = "waiting" /\ ~TwoNotices
  BY DEF IInv, Timeout, TwoNotices
<1>2. call' = [call EXCEPT !.pc = "expired", !.result = call.result]
  BY <1>1 DEF Timeout, TypeOK, CallRecords
<1>3. call.result \in {"none", "EOK", "ERROR", "ETIMEOUT"}
  BY <1>1 DEF TypeOK, CallRecords
<1>4. client' = client /\ resp' = resp /\ spoiled' = TRUE
      /\ UNCHANGED <<wire, rx, rx_notice, parser, urcs, resp_notice, sent>>
  BY DEF Timeout, uartVars
<1>5. client' \in ClientRecords /\ resp' \in RespObjects /\ spoiled' \in BOOLEAN
  BY <1>1, <1>4 DEF TypeOK
<1> QED BY <1>1, <1>2, <1>3, <1>4, <1>5, MoveStep

\* The steps after the wait, in both functions, up to the exit.
LEMMA AfterWaitStep ==
    ASSUME IInv, ExecExpired \/ ExecCheck \/ ConnectGivesUp \/ ConnectExpired
                 \/ ConnectWoken \/ ConnectFree
    PROVE  IInv'
PROOF
<1>1. /\ TypeOK
      /\ client \in ClientRecords /\ resp \in RespObjects /\ spoiled \in BOOLEAN
      /\ call.result \in {"none", "EOK", "ERROR", "ETIMEOUT"}
  BY DEF IInv, TypeOK, CallRecords
<1>2. CASE ExecExpired
  <2>1. /\ call' = [call EXCEPT !.pc = "exit", !.result = "ETIMEOUT"]
        /\ client' = [client EXCEPT !.resp_status = "TIMEOUT"]
        /\ call.pc = "expired" /\ ~TwoNotices
        /\ UNCHANGED <<wire, rx, rx_notice, parser, urcs, resp_notice, resp, sent, spoiled>>
    BY <1>2 DEF ExecExpired, uartVars, TwoNotices
  <2>2. client' \in ClientRecords /\ client'.resp = client.resp
    BY <1>1, <2>1 DEF ClientRecords
  <2> QED BY <1>1, <2>1, <2>2, MoveStep
<1>3. CASE ExecCheck
  <2> DEFINE result == IF client.resp_status = "OK" THEN "EOK" ELSE "ERROR"
  <2>1. /\ call' = [call EXCEPT !.pc = "exit", !.result = result]
        /\ call.pc = "woken" /\ call.op = "exec" /\ ~TwoNotices
        /\ UNCHANGED <<wire, rx, rx_notice, parser, urcs, client, resp_notice, resp, sent, spoiled>>
    BY <1>3 DEF ExecCheck, uartVars, TwoNotices
  <2>2. result = "ERROR" => call.ended \/ call.dropped
    BY <2>1 DEF IInv, StatusHasCause
  <2>3. result \in {"none", "EOK", "ERROR", "ETIMEOUT"}
    OBVIOUS
  <2> HIDE DEF result
  <2> QED BY <1>1, <2>1, <2>2, <2>3, MoveStep
<1>4. CASE ConnectGivesUp
  <2>1. /\ call' = [call EXCEPT !.pc = "free", !.result = "ETIMEOUT"]
        /\ call.pc = "begun" /\ ~TwoNotices
        /\ UNCHANGED <<wire, rx, rx_notice, parser, urcs, client, resp_notice, resp, sent, spoiled>>
    BY <1>4 DEF ConnectGivesUp, uartVars, TwoNotices
  <2> QED BY <1>1, <2>1, MoveStep
<1>5. CASE ConnectExpired
  <2>1. /\ call' = [call EXCEPT !.pc = "begun", !.result = call.result]
        /\ call.pc = "expired" /\ call.op = "connect" /\ ~TwoNotices
        /\ UNCHANGED <<wire, rx, rx_notice, parser, urcs, client, resp_notice, resp, sent, spoiled>>
    BY <1>1, <1>5 DEF ConnectExpired, uartVars, TwoNotices, TypeOK, CallRecords
  <2> QED BY <1>1, <2>1, MoveStep
<1>6. CASE ConnectWoken
  <2>1. /\ call' = [call EXCEPT !.pc = "free", !.result = "EOK"]
        /\ call.pc = "woken" /\ ~TwoNotices
        /\ UNCHANGED <<wire, rx, rx_notice, parser, urcs, client, resp_notice, resp, sent, spoiled>>
    BY <1>6 DEF ConnectWoken, uartVars, TwoNotices
  <2> QED BY <1>1, <2>1, MoveStep
<1>7. CASE ConnectFree
  <2>1. /\ call' = [call EXCEPT !.pc = "exit", !.result = call.result]
        /\ call.pc = "free" /\ ~TwoNotices
        /\ UNCHANGED <<wire, rx, rx_notice, parser, urcs, client, resp_notice, sent, spoiled>>
        /\ resp' = [resp EXCEPT !.freed = TRUE]
    BY <1>1, <1>7 DEF ConnectFree, uartVars, TwoNotices, TypeOK, CallRecords
  <2>2. resp' \in RespObjects
    BY <1>1, <2>1 DEF RespObjects
  <2>3. call.result = "ERROR" => call.ended \/ call.dropped
    BY <2>1 DEF IInv, StatusHasCause
  <2> QED BY <1>1, <2>1, <2>2, <2>3, MoveStep
<1> QED BY <1>2, <1>3, <1>4, <1>5, <1>6, <1>7

\* __exit: the response object is taken back from the parser.
LEMMA ExitStep ==
    ASSUME IInv, Exit
    PROVE  IInv'
PROOF
<1>1. TypeOK /\ call.pc = "exit"
  BY DEF IInv, Exit
<1>2. /\ client' = [client EXCEPT !.resp = FALSE]
      /\ call' = Idle
      /\ UNCHANGED <<wire, rx, rx_notice, parser, urcs, resp_notice, resp, sent, spoiled>>
  BY DEF Exit, uartVars
<1>3. client' \in ClientRecords /\ ~client'.resp
  BY <1>1, <1>2 DEF TypeOK, ClientRecords
<1>4. call' \in CallRecords /\ call'.pc = "idle" /\ call'.op = "none"
  BY <1>2, Fresh DEF Idle
<1>5. TypeOK'
  BY <1>1, <1>2, <1>3, <1>4 DEF TypeOK
<1>6. NoticesBounded'
  BY <1>1, <1>2, <1>3, <1>4 DEF IInv, NoticesBounded, Notices, Bit, TwoNotices, TypeOK
<1> QED BY <1>3, <1>4, <1>5, <1>6
        DEF IInv, WaitsForNotice, StatusHasCause, MayWrite, RespReset

\* at_client_obj_wait_connect begins, and writes "AT".
LEMMA ConnectStep ==
    ASSUME IInv, ConnectBegin \/ ConnectWrite
    PROVE  IInv'
PROOF
<1>0. TypeOK
  BY DEF IInv
<1>1. CASE ConnectBegin
  <2>1. /\ call.pc = "idle"
        /\ call' = [Idle EXCEPT !.pc = "begun", !.op = "connect", !.resp = TRUE]
        /\ client' = [client EXCEPT !.resp = TRUE]
        /\ resp' = NoResp
        /\ UNCHANGED <<wire, rx, rx_notice, parser, urcs, resp_notice, sent, spoiled>>
    BY <1>1 DEF ConnectBegin, uartVars
  <2>2. call' \in CallRecords /\ client' \in ClientRecords /\ resp' \in RespObjects
    BY <1>0, <2>1, Fresh DEF TypeOK, CallRecords, ClientRecords
  <2>3. TypeOK'
    BY <1>0, <2>1, <2>2 DEF TypeOK
  <2>4. call'.pc = "begun" /\ call'.op = "connect" /\ call'.cmd = 0
    BY <2>1 DEF Idle
  <2>5. ~client.resp /\ resp_notice <= 1
    BY <1>0, <2>1 DEF IInv, RespReset, NoticesBounded, Notices, Bit, TwoNotices, TypeOK
  <2>6. NoticesBounded'
    BY <1>0, <2>1, <2>4, <2>5 DEF NoticesBounded, Notices, Bit, TwoNotices, TypeOK
  <2> QED BY <2>3, <2>4, <2>6
          DEF IInv, WaitsForNotice, StatusHasCause, MayWrite, RespReset
<1>2. CASE ConnectWrite
  <2>1. /\ call.pc = "begun" /\ call.op = "connect" /\ sent < MaxSent
        /\ call' = [call EXCEPT !.pc = "sent", !.cmd = sent + 1]
        /\ resp' = [resp EXCEPT !.lines = <<>>]
        /\ UNCHANGED <<rx, rx_notice, parser, urcs, client, resp_notice, spoiled>>
    BY <1>2 DEF ConnectWrite
  <2>2. PICK answer \in Answers : Write(answer)
    BY <1>2 DEF ConnectWrite
  <2>3. wire' \in Seq(AllLines) /\ sent' \in 0 .. MaxSent
    BY <1>0, <2>1, <2>2, WriteType
  <2>4. sent + 1 \in Nat
    BY <1>0, AtClientAssumption DEF TypeOK
  <2>5. call' \in CallRecords /\ resp' \in RespObjects
    BY <1>0, <2>1, <2>4, EmptySeq DEF TypeOK, CallRecords, RespObjects
  <2>6. TypeOK'
    BY <1>0, <2>1, <2>3, <2>5 DEF TypeOK
  <2>7. call'.pc = "sent" /\ call'.op = "connect"
    BY <1>0, <2>1 DEF TypeOK, CallRecords
  <2>8. NoticesBounded'
    BY <1>0, <2>1, <2>7 DEF IInv, NoticesBounded, Notices, Bit, TwoNotices, TypeOK
  <2> QED BY <2>6, <2>7, <2>8
          DEF IInv, WaitsForNotice, StatusHasCause, MayWrite, RespReset
<1> QED BY <1>1, <1>2
-----------------------------------------------------------------------------
\* Every step of the modem, the interrupt, the parser and the callers keeps the invariant.
LEMMA IInvNext == IInv /\ [Next]_vars => IInv'
PROOF
<1> SUFFICES ASSUME IInv, [Next]_vars PROVE IInv'
  OBVIOUS
<1>1. CASE UrcSent \/ at_client_rx_ind
  BY <1>1, ReceiveStep
<1>2. CASE Parser
  BY <1>2, ReceiveStep, ParseStep DEF Parser
<1>3. CASE Begin
  BY <1>3, ExecBeginStep, ExecNoResponseStep, ConnectStep DEF Begin
<1>4. CASE CallStep
  BY <1>4, ExecWriteStep, TakeResponseStep, AfterWaitStep, ExitStep, ConnectStep DEF CallStep
<1>5. CASE Timeout
  BY <1>5, TimeoutStep
<1>6. CASE UNCHANGED vars
  <2>1. TypeOK' /\ UNCHANGED <<client, call, resp_notice, sent>>
    BY <1>6 DEF IInv, TypeOK, vars
  <2> QED BY <2>1, UartStep
<1> QED BY <1>1, <1>2, <1>3, <1>4, <1>5, <1>6 DEF Next

\* Every variable of the AT client keeps its type, and rx_notice and resp_notice never go
\* below zero.
THEOREM ClientTypeCorrect == Spec => []TypeOK
PROOF
<1>1. IInv => TypeOK
  BY DEF IInv
<1> QED BY <1>1, IInvInit, IInvNext, PTL DEF Spec

\* However many commands time out, are answered late or are not waited for, no more than
\* one stale notice is left in resp_notice between two calls.
THEOREM StaleNoticesBounded == Spec => []AtMostOneStaleNotice
PROOF
<1>1. IInv => AtMostOneStaleNotice
  <2> SUFFICES ASSUME IInv PROVE AtMostOneStaleNotice
    OBVIOUS
  <2>1. Notices \in Nat
    BY DEF IInv, TypeOK, Notices, Bit
  <2>2. Notices <= (IF call.pc = "idle" THEN 1 ELSE 2)
    BY <2>1 DEF IInv, NoticesBounded, TwoNotices
  <2> QED BY <2>2 DEF AtMostOneStaleNotice, Notices, Bit
<1> QED BY <1>1, IInvInit, IInvNext, PTL DEF Spec

\* A call never fails with the error of an earlier call.
THEOREM ErrorsHaveCause == Spec => []ErrorHasCause
PROOF
<1>1. IInv => ErrorHasCause
  BY DEF IInv, StatusHasCause, ErrorHasCause
<1> QED BY <1>1, IInvInit, IInvNext, PTL DEF Spec

-----------------------------------------------------------------------------
(***************************************************************************)
(* Answers are not mixed up.  While spoiled is FALSE, OwnInv describes the *)
(* lines between the modem and the parser: besides unsolicited ones they   *)
(* are lines of the current call's command, which still waits for them.    *)
(* That none is left when the response ends follows, for line_num = 0,     *)
(* from OK and ERROR being last; for line_num # 0 from the number each     *)
(* line has in its answer (NumbersFit), which is larger than the number of *)
(* lines stored and at most line_num.                                      *)
(***************************************************************************)
Pending == rx \o wire

Asking == call.pc \in {"sent", "waiting"}

LinesOwn ==
    \A i \in 1 .. Len(Pending) :
        IF Pending[i].cmd = 0 THEN Pending[i].kind = "urc"
        ELSE Pending[i].cmd = call.cmd /\ Asking /\ client.resp

EndIsLast ==
    \A i, j \in 1 .. Len(Pending) :
        i < j /\ Pending[i].kind \in {"OK", "ERROR"} => Pending[j].cmd = 0

Numbers(pos) ==
    /\ \A i \in 1 .. Len(Pending) : Pending[i].cmd # 0 =>
          Len(resp.lines) < pos[i] /\ (call.line_num # 0 => pos[i] <= call.line_num)
    /\ \A i, j \in 1 .. Len(Pending) :
          i < j /\ Pending[i].cmd # 0 /\ Pending[j].cmd # 0 => pos[i] < pos[j]

NumbersFit == \E pos \in [1 .. Len(Pending) -> Nat] : Numbers(pos)

\* A notice is that of the current call, whose response the parser has ended.
CallOwn ==
    /\ client.resp => call.pc \in {"begun", "sent", "waiting"} /\ ~call.ended
    /\ call.pc = "begun" => client.resp
    /\ call.pc = "begun" /\ call.op = "exec" => call.cmd = sent + 1
    /\ call.pc = "begun" /\ call.op = "connect" => call.cmd = 0
    /\ call.op = "connect" => call.line_num = 0
    /\ resp_notice # 0 => resp_notice = 1 /\ call.pc = "sent" /\ call.ended
    /\ call.pc \in {"woken", "free"} => call.ended
    /\ call.pc = "free" => call.op = "connect"
    /\ call.pc = "exit" /\ call.resp => call.ended
    /\ call.pc # "expired"

LastIsError == resp.lines[Len(resp.lines)].kind = "ERROR"

\* The response object holds the answer, and the status its verdict.
RespOwn ==
    call.op = "exec" =>
        /\ call.pc \in {"sent", "waiting", "woken"} \/ (call.pc = "exit" /\ call.resp) =>
              \A i \in 1 .. Len(resp.lines) : resp.lines[i].cmd = call.cmd
        /\ call.pc \in {"sent", "waiting", "woken"} /\ call.ended /\ ~call.dropped =>
              (client.resp_status = "OK" <=> ~LastIsError)
        /\ call.pc = "exit" /\ call.resp /\ ~call.dropped =>
              (call.result = "EOK" <=> ~LastIsError)

FlightOwn == LinesOwn /\ EndIsLast /\ NumbersFit

OwnInv == ~spoiled => FlightOwn /\ CallOwn /\ RespOwn

\* Only unsolicited lines are in flight.
Quiet == \A i \in 1 .. Len(Pending) : Pending[i].cmd = 0 /\ Pending[i].kind = "urc"

\* The lines in flight are a sequence of lines.
LEMMA PendingType ==
    ASSUME TypeOK
    PROVE  /\ Pending \in Seq(AllLines) /\ Len(Pending) \in Nat
           /\ \A i \in 1 .. Len(Pending) : Pending[i] \in AllLines /\ Pending[i].cmd \in Nat
PROOF
<1>1. Pending \in Seq(AllLines)
  BY ConcatProperties DEF TypeOK, Pending
<1>2. Len(Pending) \in Nat /\ \A i \in 1 .. Len(Pending) : Pending[i] \in AllLines
  BY <1>1, LenProperties, ElementOfSeq
<1>3. MaxSent \in Nat
  BY AtClientAssumption
<1> QED BY <1>1, <1>2, <1>3 DEF AllLines

\* The interrupt moves a line from the wire to the receive buffer: the order in which the
\* parser will see the lines does not change.
LEMMA ReceiveKeepsOrder ==
    ASSUME TypeOK, at_client_rx_ind
    PROVE  Pending' = Pending
PROOF
<1>1. /\ wire \in Seq(AllLines) /\ wire # <<>> /\ rx \in Seq(AllLines)
      /\ rx' = Append(rx, Head(wire)) /\ wire' = Tail(wire)
  BY DEF TypeOK, at_client_rx_ind
<1>2. Append(rx, Head(wire)) \o Tail(wire) = rx \o wire
  BY <1>1
<1> QED BY <1>1, <1>2 DEF Pending

\* The parser takes the first line.
LEMMA ReadTakesFirst ==
    ASSUME TypeOK, ReadLine, wire' = wire
    PROVE  /\ Len(Pending) >= 1 /\ Pending[1] = Head(rx)
           /\ Len(Pending') = Len(Pending) - 1
           /\ \A i \in 1 .. Len(Pending') : i + 1 \in 1 .. Len(Pending) /\ Pending'[i] = Pending[i + 1]
PROOF
<1>1. wire \in Seq(AllLines) /\ rx \in Seq(AllLines) /\ rx # <<>> /\ rx' = Tail(rx) /\ wire' = wire
  BY DEF TypeOK, ReadLine
<1> QED BY <1>1 DEF Pending

\* An unsolicited line comes last.
LEMMA UrcComesLast ==
    ASSUME TypeOK, UrcSent
    PROVE  /\ Len(Pending') = Len(Pending) + 1
           /\ \A i \in 1 .. Len(Pending) : Pending'[i] = Pending[i]
           /\ Pending'[Len(Pending) + 1].cmd = 0 /\ Pending'[Len(Pending) + 1].kind = "urc"
PROOF
<1>1. /\ wire \in Seq(AllLines) /\ rx \in Seq(AllLines) /\ rx' = rx
      /\ wire' = Append(wire, Line(0, "urc"))
  BY DEF TypeOK, UrcSent
<1>2. Line(0, "urc").cmd = 0 /\ Line(0, "urc").kind = "urc"
  BY DEF Line
<1> QED BY <1>1, <1>2 DEF Pending

\* The answer comes behind what is in flight, line by line.
LEMMA AnswerComesLast ==
    ASSUME TypeOK, NEW answer \in Answers, Write(answer), rx' = rx
    PROVE  /\ Len(answer) \in Nat
           /\ Len(Pending') = Len(Pending) + Len(answer)
           /\ \A i \in 1 .. Len(Pending) : Pending'[i] = Pending[i]
           /\ \A i \in 1 .. Len(answer) : Pending'[Len(Pending) + i] = Line(sent + 1, answer[i])
PROOF
<1>0. wire \in Seq(AllLines) /\ rx \in Seq(AllLines) /\ answer \in Seq(Kinds)
  BY AtClientAssumption DEF TypeOK
<1>1. Len(answer) \in Nat /\ DOMAIN answer = 1 .. Len(answer)
  BY <1>0, LenProperties
<1> DEFINE A == Lines(sent + 1, answer)
           L == {Line(sent + 1, k) : k \in Kinds}
<1>2. A \in Seq(L) /\ Len(A) = Len(answer) /\ \A i \in 1 .. Len(answer) : A[i] = Line(sent + 1, answer[i])
  <2>1. \A i \in 1 .. Len(answer) : answer[i] \in Kinds
    BY <1>0, ElementOfSeq
  <2>2. A = [i \in 1 .. Len(answer) |-> Line(sent + 1, answer[i])]
    BY <1>1 DEF Lines
  <2>3. A \in [1 .. Len(answer) -> L]
    BY <2>1, <2>2
  <2>4. A \in Seq(L)
    BY <1>1, <2>3, SeqDef
  <2> HIDE DEF A
  <2>5. DOMAIN A = 1 .. Len(answer)
    BY <2>3
  <2>6. Len(A) \in Nat /\ DOMAIN A = 1 .. Len(A)
    BY <2>4, LenProperties
  <2> QED BY <1>1, <2>2, <2>4, <2>5, <2>6
<1>3. rx' = rx /\ wire' = wire \o A
  BY DEF Write
<1> HIDE DEF A
<1>4. wire \in Seq(AllLines \cup L) /\ rx \in Seq(AllLines \cup L) /\ A \in Seq(AllLines \cup L)
  BY <1>0, <1>2
<1> HIDE DEF L
<1>5. Pending' = (rx \o wire) \o A
  BY <1>3, <1>4 DEF Pending
<1>6. rx \o wire \in Seq(AllLines \cup L) /\ Len(rx \o wire) \in Nat
  BY <1>4, ConcatProperties, LenProperties
<1>7. /\ Len((rx \o wire) \o A) = Len(rx \o wire) + Len(A)
      /\ \A i \in 1 .. Len(rx \o wire) : ((rx \o wire) \o A)[i] = (rx \o wire)[i]
      /\ \A i \in 1 .. Len(A) : ((rx \o wire) \o A)[Len(rx \o wire) + i] = A[i]
  BY <1>4, <1>6
<1> QED BY <1>1, <1>2, <1>5, <1>7 DEF Pending

\* Unsolicited lines alone satisfy everything said of the lines in flight.
LEMMA QuietIsOwn ==
    ASSUME Quiet
    PROVE  FlightOwn
PROOF
<1>1. LinesOwn
  BY DEF Quiet, LinesOwn
<1>2. EndIsLast
  BY DEF Quiet, EndIsLast
<1>3. NumbersFit
  <2>1. [i \in 1 .. Len(Pending) |-> 0] \in [1 .. Len(Pending) -> Nat]
    OBVIOUS
  <2>2. Numbers([i \in 1 .. Len(Pending) |-> 0])
    BY DEF Quiet, Numbers
  <2> QED BY <2>1, <2>2 DEF NumbersFit
<1> QED BY <1>1, <1>2, <1>3 DEF FlightOwn

\* Nothing solicited is in flight unless a call waits for it.
LEMMA OwnIsQuiet ==
    ASSUME TypeOK, FlightOwn, ~(Asking /\ client.resp)
    PROVE  Quiet
PROOF
BY DEF FlightOwn, LinesOwn, Quiet

\* Unsolicited lines stay alone when nothing new comes.
LEMMA QuietKept ==
    ASSUME Quiet, Pending' = Pending
    PROVE  FlightOwn'
PROOF
<1>1. Quiet'
  BY DEF Quiet
<1> QED BY <1>1, QuietIsOwn, PTL

\* A line is read and the response goes on.
LEMMA ReadKeeps ==
    ASSUME TypeOK, TypeOK', FlightOwn, ReadLine, wire' = wire,
           call'.cmd = call.cmd, call'.line_num = call.line_num,
           Asking' <=> Asking, client'.resp = client.resp,
           \/ Len(resp'.lines) <= Len(resp.lines)
           \/ Pending[1].cmd # 0 /\ Len(resp'.lines) <= Len(resp.lines) + 1
    PROVE  FlightOwn'
PROOF
<1>0. /\ Len(resp.lines) \in Nat /\ Len(resp'.lines) \in Nat /\ Len(Pending) \in Nat
      /\ call.line_num \in Nat
  BY PendingType, LenProperties DEF TypeOK, RespObjects, CallRecords
<1>1. /\ 1 \in 1 .. Len(Pending)
      /\ Len(Pending') = Len(Pending) - 1
      /\ \A i \in 1 .. Len(Pending') : i + 1 \in 1 .. Len(Pending) /\ Pending'[i] = Pending[i + 1]
  BY <1>0, ReadTakesFirst
<1>2. LinesOwn'
  BY <1>1 DEF FlightOwn, LinesOwn
<1>3. EndIsLast'
  <2>1. ASSUME NEW i \in 1 .. Len(Pending'), NEW j \in 1 .. Len(Pending'), i < j,
               Pending'[i].kind \in {"OK", "ERROR"}
        PROVE  Pending'[j].cmd = 0
    <3>1. i + 1 < j + 1
      BY <2>1
    <3> QED BY <1>1, <2>1, <3>1 DEF FlightOwn, EndIsLast
  <2> QED BY <2>1 DEF EndIsLast
<1>4. NumbersFit'
  <2>1. PICK pos \in [1 .. Len(Pending) -> Nat] : Numbers(pos)
    BY DEF FlightOwn, NumbersFit
  <2>2. PICK q \in [1 .. Len(Pending') -> Nat] : \A i \in 1 .. Len(Pending') : q[i] = pos[i + 1]
    <3>1. [i \in 1 .. Len(Pending') |-> pos[i + 1]] \in [1 .. Len(Pending') -> Nat]
      BY <1>1, <2>1
    <3> QED BY <3>1
  <2>3. ASSUME NEW i \in 1 .. Len(Pending'), Pending'[i].cmd # 0
        PROVE  Len(resp'.lines) < q[i] /\ (call'.line_num # 0 => q[i] <= call'.line_num)
    <3>1. i + 1 \in 1 .. Len(Pending) /\ 1 < i + 1 /\ Pending[i + 1].cmd # 0 /\ q[i] = pos[i + 1]
      BY <1>1, <2>2, <2>3
    <3>2. /\ Len(resp.lines) < pos[i + 1] /\ (call.line_num # 0 => pos[i + 1] <= call.line_num)
          /\ Pending[1].cmd # 0 => Len(resp.lines) < pos[1] /\ pos[1] < pos[i + 1]
      BY <1>1, <2>1, <3>1 DEF Numbers
    <3>3. pos[1] \in Nat /\ pos[i + 1] \in Nat
      BY <1>1, <2>1, <3>1
    <3> QED BY <1>0, <3>1, <3>2, <3>3
  <2>4. ASSUME NEW i \in 1 .. Len(Pending'), NEW j \in 1 .. Len(Pending'), i < j,
               Pending'[i].cmd # 0, Pending'[j].cmd # 0
        PROVE  q[i] < q[j]
    <3>1. i + 1 < j + 1
      BY <2>4
    <3> QED BY <1>1, <2>1, <2>2, <2>4, <3>1 DEF Numbers
  <2>5. Numbers(q)'
    BY <2>3, <2>4 DEF Numbers
  <2> QED BY <2>2, <2>5 DEF NumbersFit
<1> QED BY <1>2, <1>3, <1>4 DEF FlightOwn

\* The line that ends the response is the last line of the answer in flight.
LEMMA EndLeavesQuiet ==
    ASSUME TypeOK, TypeOK', FlightOwn, ReadLine, wire' = wire, Pending[1].cmd # 0,
           \/ Pending[1].kind \in {"OK", "ERROR"}
           \/ /\ call.line_num # 0 /\ Len(resp'.lines) = call.line_num
              /\ Len(resp'.lines) <= Len(resp.lines) + 1
    PROVE  FlightOwn'
PROOF
<1>0. /\ Len(resp.lines) \in Nat /\ Len(resp'.lines) \in Nat /\ Len(Pending) \in Nat
      /\ call.line_num \in Nat
  BY PendingType, LenProperties DEF TypeOK, RespObjects, CallRecords
<1>1. /\ 1 \in 1 .. Len(Pending)
      /\ Len(Pending') = Len(Pending) - 1
      /\ \A i \in 1 .. Len(Pending') : i + 1 \in 1 .. Len(Pending) /\ Pending'[i] = Pending[i + 1]
  BY <1>0, ReadTakesFirst
<1>2. ASSUME NEW i \in 1 .. Len(Pending), 1 < i PROVE Pending[i].cmd = 0
  <2>1. CASE Pending[1].kind \in {"OK", "ERROR"}
    BY <1>1, <1>2, <2>1 DEF FlightOwn, EndIsLast
  <2>2. CASE /\ call.line_num # 0 /\ Len(resp'.lines) = call.line_num
             /\ Len(resp'.lines) <= Len(resp.lines) + 1
    <3>1. PICK pos \in [1 .. Len(Pending) -> Nat] : Numbers(pos)
      BY DEF FlightOwn, NumbersFit
    <3>2. SUFFICES ASSUME Pending[i].cmd # 0 PROVE FALSE
      OBVIOUS
    <3>3. Len(resp.lines) < pos[1] /\ pos[1] < pos[i] /\ pos[i] <= call.line_num
      BY <1>1, <1>2, <2>2, <3>1, <3>2 DEF Numbers
    <3>4. pos[1] \in Nat /\ pos[i] \in Nat
      BY <1>1, <3>1
    <3> QED BY <1>0, <2>2, <3>3, <3>4
  <2> QED BY <2>1, <2>2
<1>3. \A i \in 1 .. Len(Pending') : 1 < i + 1
  OBVIOUS
<1>4. Quiet'
  BY <1>1, <1>2, <1>3 DEF Quiet, FlightOwn, LinesOwn
<1> QED BY <1>4, QuietIsOwn, PTL

\* A command is written when nothing solicited is in flight: its lines are numbered from 1.
LEMMA AnswerIsOwn ==
    ASSUME TypeOK, TypeOK', Quiet, NEW answer \in Answers, Write(answer), rx' = rx,
           call'.cmd = sent + 1, call'.pc = "sent", client'.resp, Len(resp'.lines) = 0,
           call'.line_num = 0 \/ Len(answer) <= call'.line_num
    PROVE  FlightOwn'
PROOF
<1>0. /\ Len(Pending) \in Nat /\ sent \in Nat /\ answer \in Seq(Kinds)
      /\ \A i \in 1 .. Len(answer) - 1 : answer[i] \notin {"OK", "ERROR"}
  BY PendingType, AtClientAssumption, AnswersAssumption DEF TypeOK
<1>1. /\ Len(answer) \in Nat
      /\ Len(Pending') = Len(Pending) + Len(answer)
      /\ \A i \in 1 .. Len(Pending) : Pending'[i] = Pending[i]
      /\ \A i \in 1 .. Len(answer) : Pending'[Len(Pending) + i] = Line(sent + 1, answer[i])
  BY AnswerComesLast
<1>2. ASSUME NEW i \in 1 .. Len(Pending')
      PROVE  \/ i \in 1 .. Len(Pending) /\ Pending'[i].cmd = 0 /\ Pending'[i].kind = "urc"
             \/ /\ i - Len(Pending) \in 1 .. Len(answer) /\ Pending'[i].cmd = sent + 1
                /\ Pending'[i].kind = answer[i - Len(Pending)]
  <2>1. CASE i <= Len(Pending)
    BY <1>0, <1>1, <2>1 DEF Quiet
  <2>2. CASE i > Len(Pending)
    <3>1. i - Len(Pending) \in 1 .. Len(answer) /\ Len(Pending) + (i - Len(Pending)) = i
      BY <1>0, <1>1, <2>2
    <3>2. Pending'[i] = Line(sent + 1, answer[i - Len(Pending)])
      BY <1>1, <3>1
    <3> QED BY <3>1, <3>2 DEF Line
  <2> QED BY <1>0, <1>1, <2>1, <2>2
<1>3. sent + 1 # 0
  BY <1>0
<1>4. LinesOwn'
  <2>1. ASSUME NEW i \in 1 .. Len(Pending')
        PROVE  IF Pending'[i].cmd = 0 THEN Pending'[i].kind = "urc"
               ELSE Pending'[i].cmd = call'.cmd /\ call'.pc \in {"sent", "waiting"} /\ client'.resp
    <3>1. CASE Pending'[i].cmd = 0
      BY <1>2, <1>3, <3>1
    <3>2. CASE Pending'[i].cmd # 0
      BY <1>2, <3>2
    <3> QED BY <3>1, <3>2
  <2> QED BY <2>1 DEF LinesOwn, Asking
<1>5. EndIsLast'
  <2>1. ASSUME NEW i \in 1 .. Len(Pending'), NEW j \in 1 .. Len(Pending'), i < j,
               Pending'[i].kind \in {"OK", "ERROR"}, Pending'[j].cmd # 0
        PROVE  FALSE
    <3>1. i - Len(Pending) \in 1 .. Len(answer) /\ answer[i - Len(Pending)] \in {"OK", "ERROR"}
      BY <1>2, <2>1
    <3>2. j - Len(Pending) \in 1 .. Len(answer)
      BY <1>2, <2>1
    <3>3. i - Len(Pending) \in 1 .. Len(answer) - 1
      BY <1>0, <1>1, <2>1, <3>1, <3>2
    <3> QED BY <1>0, <3>1, <3>3
  <2> QED BY <2>1 DEF EndIsLast
<1>6. NumbersFit'
  <2> DEFINE f == [i \in 1 .. Len(Pending') |->
                      IF i > Len(Pending) THEN i - Len(Pending) ELSE 0]
  <2>1. \A i \in 1 .. Len(Pending') : f[i] \in Nat
    BY <1>0, <1>1
  <2>2. PICK pos \in [1 .. Len(Pending') -> Nat] : pos = f
    BY <2>1
  <2>3. ASSUME NEW i \in 1 .. Len(Pending'), Pending'[i].cmd # 0
        PROVE  /\ Len(resp'.lines) < pos[i] /\ (call'.line_num # 0 => pos[i] <= call'.line_num)
               /\ i > Len(Pending) /\ pos[i] = i - Len(Pending)
    <3>1. i - Len(Pending) \in 1 .. Len(answer)
      BY <1>2, <2>3
    <3>2. i > Len(Pending) /\ pos[i] = i - Len(Pending)
      BY <1>0, <1>1, <2>2, <3>1
    <3>3. call'.line_num \in Nat
      BY DEF TypeOK, CallRecords
    <3> QED BY <1>1, <3>1, <3>2, <3>3
  <2>4. ASSUME NEW i \in 1 .. Len(Pending'), NEW j \in 1 .. Len(Pending'), i < j,
               Pending'[i].cmd # 0, Pending'[j].cmd # 0
        PROVE  pos[i] < pos[j]
    BY <1>0, <1>1, <2>3, <2>4
  <2>5. Numbers(pos)'
    BY <2>3, <2>4 DEF Numbers
  <2> QED BY <2>2, <2>5 DEF NumbersFit
<1> QED BY <1>4, <1>5, <1>6 DEF FlightOwn

\* Steps of the modem, the UART and at_client_getchar, and lines for no one.
LEMMA ReceiveOwn ==
    ASSUME IInv, IInv', OwnInv,
           UrcSent \/ at_client_rx_ind \/ ReadNothing \/ ResetNotice \/ TakeNotice \/ SkipLine
    PROVE  OwnInv'
PROOF
<1> SUFFICES ASSUME ~spoiled' PROVE FlightOwn' /\ CallOwn' /\ RespOwn'
  BY DEF OwnInv
<1>1. TypeOK /\ TypeOK' /\ UNCHANGED <<call, client, resp, resp_notice, sent, spoiled>>
  BY DEF IInv, UrcSent, at_client_rx_ind, ReadNothing, ResetNotice, TakeNotice, SkipLine
<1>2. FlightOwn /\ CallOwn /\ RespOwn
  BY <1>1 DEF OwnInv
<1>3. CallOwn' /\ RespOwn'
  BY <1>1, <1>2 DEF CallOwn, RespOwn, LastIsError
<1>4. CASE UrcSent
  <2>0. Len(Pending) \in Nat
    BY <1>1, PendingType
  <2>1. /\ Len(Pending') = Len(Pending) + 1
        /\ \A i \in 1 .. Len(Pending) : Pending'[i] = Pending[i]
        /\ Pending'[Len(Pending) + 1].cmd = 0 /\ Pending'[Len(Pending) + 1].kind = "urc"
    BY <1>1, <1>4, UrcComesLast
  <2>2. \A i \in 1 .. Len(Pending') : i \in 1 .. Len(Pending) \/ i = Len(Pending) + 1
    BY <2>0, <2>1
  <2>3. LinesOwn' /\ EndIsLast'
    BY <1>1, <1>2, <2>0, <2>1, <2>2 DEF FlightOwn, LinesOwn, EndIsLast, Asking
  <2>4. PICK pos \in [1 .. Len(Pending) -> Nat] : Numbers(pos)
    BY <1>2 DEF FlightOwn, NumbersFit
  <2> DEFINE f == [i \in 1 .. Len(Pending') |-> IF i \in 1 .. Len(Pending) THEN pos[i] ELSE 0]
  <2>5. PICK q \in [1 .. Len(Pending') -> Nat] : q = f
    BY <2>4
  <2>6. \A i \in 1 .. Len(Pending') :
          Pending'[i].cmd # 0 => i \in 1 .. Len(Pending) /\ q[i] = pos[i] /\ Pending[i].cmd # 0
    BY <2>1, <2>2, <2>5
  <2>7. Numbers(q)'
    BY <1>1, <2>4, <2>6 DEF Numbers
  <2> QED BY <1>3, <2>3, <2>5, <2>7 DEF FlightOwn, NumbersFit
<1>5. CASE at_client_rx_ind \/ ReadNothing \/ ResetNotice \/ TakeNotice
  <2>1. Pending' = Pending
    <3>1. CASE at_client_rx_ind
      BY <1>1, <3>1, ReceiveKeepsOrder
    <3>2. CASE ReadNothing \/ ResetNotice \/ TakeNotice
      BY <3>2 DEF Pending, ReadNothing, ResetNotice, TakeNotice
    <3> QED BY <1>5, <3>1, <3>2
  <2>2. FlightOwn'
    BY <1>1, <1>2, <2>1 DEF FlightOwn, LinesOwn, EndIsLast, NumbersFit, Numbers, Asking
  <2> QED BY <1>3, <2>2
<1>6. CASE SkipLine
  <2>1. ReadLine /\ wire' = wire
    BY <1>6 DEF SkipLine
  <2>2. Len(resp'.lines) <= Len(resp.lines)
    BY <1>1, LenProperties DEF TypeOK, RespObjects
  <2>3. FlightOwn'
    BY <1>1, <1>2, <2>1, <2>2, ReadKeeps DEF Asking
  <2> QED BY <1>3, <2>3
<1> QED BY <1>4, <1>5, <1>6

\* The parser adds a line to the response of the call it belongs to, and ends it at its last.
LEMMA ParseOwn ==
    ASSUME IInv, IInv', OwnInv, ParseLine
    PROVE  OwnInv'
PROOF
<1> SUFFICES ASSUME ~spoiled' PROVE FlightOwn' /\ CallOwn' /\ RespOwn'
  BY DEF OwnInv
<1> DEFINE line == Head(rx)
<1>1. /\ TypeOK /\ TypeOK' /\ ReadLine /\ line.kind \notin {"long", "urc"} /\ client.resp
      /\ resp' = Store(resp, line) /\ UNCHANGED <<wire, sent, spoiled>>
  BY DEF IInv, ParseLine
<1>2. FlightOwn /\ CallOwn /\ RespOwn
  BY <1>1 DEF OwnInv
<1>3. Pending[1] = line /\ 1 \in 1 .. Len(Pending)
  BY <1>1, ReadTakesFirst, PendingType
<1>4. line.cmd # 0 /\ line.cmd = call.cmd /\ Asking
  BY <1>1, <1>2, <1>3 DEF FlightOwn, LinesOwn
<1>5. line \in AllLines /\ resp.lines \in Seq(AllLines) /\ Len(resp.lines) \in Nat
  BY <1>1, <1>3, PendingType, LenProperties DEF TypeOK, RespObjects
<1>6. resp'.lines = IF Fits(resp) THEN Append(resp.lines, line) ELSE resp.lines
  BY <1>1 DEF Store, TypeOK, RespObjects
<1>7. /\ Fits(resp) => /\ Len(resp'.lines) = Len(resp.lines) + 1
                       /\ \A i \in 1 .. Len(resp.lines) : resp'.lines[i] = resp.lines[i]
                       /\ resp'.lines[Len(resp'.lines)] = line
      /\ ~Fits(resp) => resp'.lines = resp.lines
      /\ Len(resp'.lines) \in Nat /\ Len(resp'.lines) <= Len(resp.lines) + 1
  BY <1>5, <1>6
<1>8. /\ call'.cmd = call.cmd /\ call'.line_num = call.line_num /\ call'.op = call.op
      /\ call'.resp = call.resp /\ call'.result = call.result
      /\ call'.dropped = (call.dropped \/ ~Fits(resp))
  BY <1>1 DEF ParseLine, EndResponse, TypeOK, CallRecords
<1>9. ~call.ended /\ call.pc \in {"sent", "waiting"}
  BY <1>1, <1>2, <1>4 DEF CallOwn, Asking
<1>10. ASSUME call.op = "exec", NEW i \in 1 .. Len(resp'.lines)
       PROVE  resp'.lines[i].cmd = call.cmd
  <2>1. \A k \in 1 .. Len(resp.lines) : resp.lines[k].cmd = call.cmd
    BY <1>2, <1>9, <1>10 DEF RespOwn
  <2>2. i \in 1 .. Len(resp.lines) \/ (Fits(resp) /\ i = Len(resp'.lines))
    BY <1>5, <1>7, <1>10
  <2> QED BY <1>4, <1>7, <2>1, <2>2
<1>11. CASE ~EndsOk(resp', line) /\ ~EndsError(line)
  <2>1. /\ client'.resp = client.resp /\ resp_notice' = resp_notice
        /\ call'.pc = call.pc /\ call'.ended = call.ended
    BY <1>1, <1>11 DEF ParseLine, TypeOK, CallRecords, ClientRecords
  <2>2. FlightOwn'
    BY <1>1, <1>2, <1>3, <1>4, <1>7, <1>8, <2>1, ReadKeeps DEF Asking
  <2>3. CallOwn'
    BY <1>1, <1>2, <1>8, <2>1 DEF CallOwn
  <2>4. RespOwn'
    BY <1>8, <1>9, <1>10, <2>1 DEF RespOwn
  <2> QED BY <2>2, <2>3, <2>4
<1>12. CASE EndsOk(resp', line) \/ EndsError(line)
  <2>1. PICK status \in {"OK", "ERROR"} :
          EndResponse(status) /\ (status = "OK" <=> line.kind # "ERROR")
    BY <1>1, <1>12 DEF ParseLine, EndsOk, EndsError
  <2>2. /\ client'.resp = FALSE /\ client'.resp_status = status /\ call'.ended = TRUE
        /\ \/ call.pc = "waiting" /\ call'.pc = "woken" /\ resp_notice' = resp_notice
           \/ call.pc = "sent" /\ call'.pc = "sent" /\ resp_notice' = resp_notice + 1
    BY <1>1, <1>9, <2>1 DEF EndResponse, TypeOK, CallRecords
  <2>3. \/ line.kind \in {"OK", "ERROR"}
        \/ call.line_num # 0 /\ Len(resp'.lines) = call.line_num
    BY <1>12 DEF EndsOk, EndsError
  <2>4. FlightOwn'
    BY <1>1, <1>2, <1>3, <1>4, <1>7, <2>3, EndLeavesQuiet
  <2>5. CallOwn'
    BY <1>1, <1>2, <1>8, <1>9, <2>2 DEF CallOwn
  <2>6. Fits(resp) => (LastIsError' <=> line.kind = "ERROR")
    BY <1>7 DEF LastIsError
  <2>7. RespOwn'
    BY <1>8, <1>9, <1>10, <2>1, <2>2, <2>6 DEF RespOwn
  <2> QED BY <2>4, <2>5, <2>7
<1> QED BY <1>11, <1>12

\* A call begins: nothing solicited is in flight and no notice is left.
LEMMA BeginOwn ==
    ASSUME IInv, IInv', OwnInv, Begin
    PROVE  OwnInv'
PROOF
<1> SUFFICES ASSUME ~spoiled' PROVE FlightOwn' /\ CallOwn' /\ RespOwn'
  BY DEF OwnInv
<1>1. TypeOK /\ TypeOK' /\ call.pc = "idle" /\ rx' = rx /\ resp_notice' = resp_notice
  BY DEF IInv, Begin, ExecBegin, ExecNoResponse, ConnectBegin, uartVars
<1>2. ~spoiled
  BY DEF Begin, ExecBegin, ExecNoResponse, ConnectBegin
<1>3. FlightOwn /\ CallOwn /\ RespOwn
  BY <1>2 DEF OwnInv
<1>4. Quiet /\ resp_notice = 0
  BY <1>1, <1>3, OwnIsQuiet DEF CallOwn, Asking
<1>5. Pending' = Pending
  <2>1. CASE ExecNoResponse
    <3>1. PICK answer \in Answers : Write(answer) /\ answer = <<>>
      BY <2>1 DEF ExecNoResponse
    <3>2. wire' = wire \o Lines(sent + 1, <<>>) /\ wire \in Seq(AllLines)
      BY <1>1, <3>1 DEF Write, TypeOK
    <3>3. Lines(sent + 1, <<>>) = <<>>
      BY DEF Lines
    <3>4. wire' = wire
      BY <3>2, <3>3, ConcatEmptySeq
    <3> QED BY <1>1, <3>4 DEF Pending
  <2>2. CASE ~ExecNoResponse
    BY <2>2 DEF Begin, ExecBegin, ConnectBegin, uartVars, Pending
  <2> QED BY <2>1, <2>2
<1>6. FlightOwn'
  BY <1>4, <1>5, QuietKept
<1>7. CASE \E line_num \in LineNums : ExecBegin(line_num)
  <2>1. /\ call'.pc = "begun" /\ call'.op = "exec" /\ call'.cmd = sent + 1 /\ sent' = sent
        /\ call'.ended = FALSE /\ client'.resp = TRUE
    BY <1>7 DEF ExecBegin, Idle
  <2> QED BY <1>1, <1>4, <1>6, <2>1 DEF CallOwn, RespOwn
<1>8. CASE ExecNoResponse
  <2>1. call'.pc = "exit" /\ call'.op = "exec" /\ call'.resp = FALSE /\ client'.resp = FALSE
    BY <1>8 DEF ExecNoResponse, Idle
  <2> QED BY <1>1, <1>4, <1>6, <2>1 DEF CallOwn, RespOwn
<1>9. CASE ConnectBegin
  <2>1. /\ call'.pc = "begun" /\ call'.op = "connect" /\ call'.cmd = 0 /\ call'.line_num = 0
        /\ call'.ended = FALSE /\ client'.resp = TRUE
    BY <1>1, <1>9 DEF ConnectBegin, Idle, TypeOK, ClientRecords
  <2> QED BY <1>1, <1>4, <1>6, <2>1 DEF CallOwn, RespOwn
<1> QED BY <1>7, <1>8, <1>9 DEF Begin

\* The command is written into an emptied response object.
LEMMA WriteOwn ==
    ASSUME IInv, IInv', OwnInv, ExecWrite \/ ConnectWrite
    PROVE  OwnInv'
PROOF
<1> SUFFICES ASSUME ~spoiled' PROVE FlightOwn' /\ CallOwn' /\ RespOwn'
  BY DEF OwnInv
<1>1. /\ TypeOK /\ TypeOK' /\ call.pc = "begun" /\ rx' = rx
      /\ UNCHANGED <<client, resp_notice>> /\ resp' = [resp EXCEPT !.lines = <<>>]
  BY DEF IInv, ExecWrite, ConnectWrite
<1>2. ~spoiled
  BY DEF ExecWrite, ConnectWrite
<1>3. FlightOwn /\ CallOwn /\ RespOwn
  BY <1>2 DEF OwnInv
<1>4. client.resp /\ ~call.ended /\ resp_notice = 0 /\ Quiet
  BY <1>1, <1>3, OwnIsQuiet DEF CallOwn, Asking
<1>5. /\ call'.pc = "sent" /\ call'.cmd = sent + 1 /\ call'.op = call.op
      /\ call'.line_num = call.line_num /\ call'.ended = call.ended
  BY <1>1, <1>3 DEF ExecWrite, ConnectWrite, TypeOK, CallRecords, CallOwn
<1>6. resp'.lines = <<>> /\ Len(resp'.lines) = 0
  BY <1>1 DEF TypeOK, RespObjects
<1>7. PICK answer \in Answers :
        Write(answer) /\ (call.line_num = 0 \/ Len(answer) <= call.line_num)
  <2>1. CASE ExecWrite
    <3>1. PICK answer \in Answers :
            Write(answer) /\ ~(call.line_num \in 1 .. Len(answer) - 1)
      BY <1>2, <2>1 DEF ExecWrite
    <3>2. Len(answer) \in Nat /\ call.line_num \in Nat
      BY <1>1, AtClientAssumption, LenProperties DEF TypeOK, CallRecords
    <3> QED BY <3>1, <3>2
  <2>2. CASE ConnectWrite
    BY <1>3, <2>2 DEF ConnectWrite, CallOwn
  <2> QED BY <2>1, <2>2
<1>8. FlightOwn'
  BY <1>1, <1>4, <1>5, <1>6, <1>7, AnswerIsOwn
<1>9. CallOwn'
  BY <1>1, <1>3, <1>4, <1>5 DEF CallOwn
<1>10. RespOwn'
  BY <1>4, <1>5, <1>6 DEF RespOwn
<1> QED BY <1>8, <1>9, <1>10

\* The rest of a call: taking the notice, checking the status, freeing, returning.
LEMMA CallOwnStep ==
    ASSUME IInv, IInv', OwnInv,
           \/ TakeResponse \/ ExecExpired \/ ExecCheck \/ Exit
           \/ ConnectGivesUp \/ ConnectExpired \/ ConnectWoken \/ ConnectFree \/ Timeout
    PROVE  OwnInv'
PROOF
<1> SUFFICES ASSUME ~spoiled' PROVE FlightOwn' /\ CallOwn' /\ RespOwn'
  BY DEF OwnInv
<1>1. TypeOK /\ TypeOK' /\ UNCHANGED <<rx, wire>>
  BY DEF IInv, TakeResponse, ExecExpired, ExecCheck, Exit, ConnectGivesUp, ConnectExpired,
         ConnectWoken, ConnectFree, Timeout, uartVars
<1>2. ~Timeout /\ ~spoiled
  BY DEF TakeResponse, ExecExpired, ExecCheck, Exit, ConnectGivesUp, ConnectExpired,
         ConnectWoken, ConnectFree, Timeout
<1>3. FlightOwn /\ CallOwn /\ RespOwn
  BY <1>2 DEF OwnInv
<1>4. ~ExecExpired /\ ~ConnectExpired /\ ~ConnectGivesUp
  BY <1>3 DEF CallOwn, ExecExpired, ConnectExpired, ConnectGivesUp
<1>5. Pending' = Pending
  BY <1>1 DEF Pending
<1>6. CASE TakeResponse
  <2>1. /\ call.pc = "sent" /\ UNCHANGED <<client, resp, sent>>
        /\ call'.cmd = call.cmd /\ call'.line_num = call.line_num /\ call'.op = call.op
        /\ call'.ended = call.ended /\ call'.dropped = call.dropped
        /\ \/ resp_notice > 0 /\ resp_notice' = resp_notice - 1 /\ call'.pc = "woken"
           \/ resp_notice = 0 /\ resp_notice' = 0 /\ call'.pc = "waiting"
    BY <1>1, <1>6 DEF TakeResponse, TypeOK, CallRecords
  <2>2. CASE resp_notice > 0
    <3>1. call.ended /\ ~client.resp /\ resp_notice' = 0 /\ call'.pc = "woken"
      BY <1>3, <2>1, <2>2 DEF CallOwn
    <3>2. FlightOwn'
      BY <1>1, <1>3, <1>5, <3>1, OwnIsQuiet, QuietKept
    <3> QED BY <1>3, <2>1, <3>1, <3>2 DEF CallOwn, RespOwn, LastIsError
  <2>3. CASE resp_notice = 0
    <3>1. call'.pc = "waiting" /\ resp_notice' = 0
      BY <2>1, <2>3
    <3>2. FlightOwn'
      BY <1>3, <1>5, <2>1, <3>1
         DEF FlightOwn, LinesOwn, EndIsLast, NumbersFit, Numbers, Asking
    <3> QED BY <1>3, <2>1, <3>1, <3>2 DEF CallOwn, RespOwn, LastIsError
  <2> QED BY <2>1, <2>2, <2>3
<1>7. CASE ExecCheck \/ Exit \/ ConnectWoken \/ ConnectFree
  <2>1. /\ call.pc \in {"woken", "exit", "free"} /\ resp_notice' = resp_notice
    BY <1>7 DEF ExecCheck, Exit, ConnectWoken, ConnectFree
  <2>2. FlightOwn' /\ ~client.resp /\ resp_notice = 0
    BY <1>1, <1>3, <1>5, <2>1, OwnIsQuiet, QuietKept DEF Asking, CallOwn
  <2>3. CASE ExecCheck
    <3>1. /\ call'.pc = "exit" /\ call.pc = "woken" /\ call.op = "exec" /\ call'.op = "exec"
          /\ call'.cmd = call.cmd /\ call'.ended = call.ended /\ call'.dropped = call.dropped
          /\ call'.result = (IF client.resp_status = "OK" THEN "EOK" ELSE "ERROR")
          /\ UNCHANGED <<client, resp>>
      BY <1>1, <2>3 DEF ExecCheck, TypeOK, CallRecords
    <3>2. CallOwn'
      BY <1>3, <2>1, <2>2, <3>1 DEF CallOwn
    <3>3. RespOwn'
      BY <1>3, <3>1, <3>2 DEF RespOwn, LastIsError, CallOwn
    <3> QED BY <2>2, <3>2, <3>3
  <2>4. CASE Exit
    <3>1. call'.pc = "idle" /\ call'.op = "none" /\ client'.resp = FALSE
      BY <1>1, <2>4 DEF Exit, Idle, TypeOK, ClientRecords
    <3> QED BY <2>1, <2>2, <3>1 DEF CallOwn, RespOwn
  <2>5. CASE ConnectWoken
    <3>1. /\ call'.pc = "free" /\ call'.op = "connect" /\ call'.ended = call.ended
          /\ call'.line_num = call.line_num /\ client' = client /\ call.pc = "woken"
          /\ call.op = "connect"
      BY <1>1, <2>5 DEF ConnectWoken, TypeOK, CallRecords
    <3> QED BY <1>3, <2>1, <2>2, <3>1 DEF CallOwn, RespOwn
  <2>6. CASE ConnectFree
    <3>1. /\ call'.pc = "exit" /\ call'.op = call.op /\ call'.ended = call.ended
          /\ call'.line_num = call.line_num /\ client' = client /\ call.pc = "free"
      BY <1>1, <2>6 DEF ConnectFree, TypeOK, CallRecords
    <3>2. CallOwn'
      BY <1>3, <2>1, <2>2, <3>1 DEF CallOwn
    <3>3. call.op = "connect"
      BY <1>3, <3>1 DEF CallOwn
    <3> QED BY <2>2, <3>1, <3>2, <3>3 DEF RespOwn
  <2> QED BY <1>7, <2>3, <2>4, <2>5, <2>6
<1> QED BY <1>2, <1>4, <1>6, <1>7

\* Every step keeps the answers apart.
LEMMA OwnNext == IInv /\ IInv' /\ OwnInv /\ [Next]_vars => OwnInv'
PROOF
<1> SUFFICES ASSUME IInv, IInv', OwnInv, [Next]_vars PROVE OwnInv'
  OBVIOUS
<1>1. CASE UrcSent \/ at_client_rx_ind
  BY <1>1, ReceiveOwn
<1>2. CASE Parser
  BY <1>2, ReceiveOwn, ParseOwn DEF Parser
<1>3. CASE Begin
  BY <1>3, BeginOwn
<1>4. CASE CallStep
  BY <1>4, WriteOwn, CallOwnStep DEF CallStep
<1>5. CASE Timeout
  BY <1>5, CallOwnStep
<1>6. CASE UNCHANGED vars
  <2>1. UNCHANGED <<rx, wire, call, client, resp, resp_notice, sent, spoiled>> /\ Pending' = Pending
    BY <1>6 DEF vars, Pending
  <2> QED BY <2>1 DEF OwnInv, FlightOwn, LinesOwn, EndIsLast, NumbersFit, Numbers, Asking, CallOwn,
                      RespOwn, LastIsError
<1> QED BY <1>1, <1>2, <1>3, <1>4, <1>5, <1>6 DEF Next

\* As long as no call timed out and every call asked for its whole answer, a call returns with
\* its own answer, with success exactly when the last line is no error: for any number of
\* commands, any answers that end with OK or ERROR or a counted line, and unsolicited lines
\* anywhere between.
THEOREM AnswersAreOwn == Spec => []OwnAnswer
PROOF
<1>1. Init => OwnInv
  <2> SUFFICES ASSUME Init PROVE FlightOwn /\ CallOwn /\ RespOwn
    BY DEF OwnInv
  <2>1. Pending = <<>>
    BY DEF Init, Pending
  <2>2. Quiet
    BY <2>1 DEF Quiet
  <2> QED BY <2>2, QuietIsOwn DEF Init, Idle, CallOwn, RespOwn
<1>2. IInv /\ OwnInv => OwnAnswer
  <2> SUFFICES ASSUME IInv, OwnInv, ~spoiled, call.pc = "exit", call.op = "exec", call.resp
               PROVE  /\ call.ended
                      /\ \A i \in DOMAIN resp.lines : resp.lines[i].cmd = call.cmd
                      /\ ~call.dropped =>
                            (call.result = "EOK" <=> resp.lines[Len(resp.lines)].kind # "ERROR")
    BY DEF OwnAnswer
  <2>1. DOMAIN resp.lines = 1 .. Len(resp.lines)
    BY LenProperties DEF IInv, TypeOK, RespObjects
  <2> QED BY <2>1 DEF OwnInv, CallOwn, RespOwn, LastIsError
<1> QED BY <1>1, <1>2, IInvInit, IInvNext, OwnNext, PTL DEF Spec
=============================================================================
