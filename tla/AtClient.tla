------------------------------ MODULE AtClient ------------------------------
(***************************************************************************)
(* The AT client (components/net/at/src/at_client.c): a caller writes a    *)
(* command to the modem's UART and waits on the semaphore resp_notice; the *)
(* parser thread collects the lines that come back into the caller's       *)
(* response object and releases the semaphore at the last one.             *)
(*                                                                         *)
(* client->lock admits one call at a time, so the model has one call in    *)
(* progress.  The parser (priority 9) is more urgent than the callers: it  *)
(* handles a line without a caller's step in between, but may itself run   *)
(* between any two steps of a call, and the UART interrupt between any two *)
(* steps of both.  Lines are abstract: each has length 1.                  *)
(***************************************************************************)
EXTENDS Integers, Sequences

CONSTANTS
    Answers,   \* the lines a modem may answer a command with, as sequences of kinds
    LineNums,  \* resp->line_num of the calls
    BufSize,   \* resp->buf_size
    MaxSent,   \* bound on the commands written
    MaxUrc     \* bound on the unsolicited lines

Kinds == {"OK", "ERROR", "data", "long", "urc"}

ASSUME AtClientAssumption ==
    /\ \A a \in Answers : a \in Seq(Kinds)
    /\ LineNums \subseteq Nat
    /\ BufSize \in Nat /\ MaxSent \in Nat /\ MaxUrc \in Nat

\* The protocol client_parser relies on: OK or ERROR is the last line of an answer.
ASSUME AnswersAssumption ==
    \A a \in Answers : \A i \in 1 .. Len(a) - 1 : a[i] \notin {"OK", "ERROR"}

VARIABLES
    wire,       \* lines the modem sends, not yet received
    rx,         \* lines in the receive buffer of the UART
    rx_notice,  \* value of client->rx_notice
    parser,     \* where client_parser is in at_client_getchar
    client,     \* client->resp # RT_NULL, client->resp_status
    resp_notice,  \* value of client->resp_notice
    call,       \* the call that holds client->lock
    resp,       \* the response object: its lines, and whether it was freed
    sent,       \* commands written so far
    urcs,       \* unsolicited lines so far
    spoiled     \* history: an answer may have been left to a later call

vars == <<wire, rx, rx_notice, parser, client, resp_notice, call, resp, sent, urcs, spoiled>>
uartVars == <<wire, rx, rx_notice, parser, urcs>>

Line(cmd, kind) == [cmd |-> cmd, kind |-> kind]
Lines(cmd, answer) == [i \in DOMAIN answer |-> Line(cmd, answer[i])]

\* pc: idle, begun, sent, waiting (suspended in rt_sem_take), woken, expired, free, exit;
\* cmd is the number of the command; ended: the parser ended the response in this call.
Idle == [pc |-> "idle", op |-> "none", resp |-> FALSE, line_num |-> 0, cmd |-> 0,
         result |-> "none", ended |-> FALSE, dropped |-> FALSE]

NoResp == [lines |-> <<>>, freed |-> FALSE, touched |-> FALSE]

Init ==
    /\ wire = <<>> /\ rx = <<>>
    /\ rx_notice = 0 /\ resp_notice = 0
    /\ parser = "read"
    /\ client = [resp |-> FALSE, resp_status |-> "OK"]
    /\ call = Idle
    /\ resp = NoResp
    /\ sent = 0 /\ urcs = 0
    /\ spoiled = FALSE
-----------------------------------------------------------------------------
\* The modem (external) answers a command with one of Answers.
Write(answer) ==
    /\ sent' = sent + 1
    /\ wire' = wire \o Lines(sent + 1, answer)

\* An unsolicited line (external).
UrcSent ==
    /\ urcs < MaxUrc
    /\ urcs' = urcs + 1
    /\ wire' = Append(wire, Line(0, "urc"))
    /\ UNCHANGED <<rx, rx_notice, parser, client, resp_notice, call, resp, sent, spoiled>>

\* at_client_rx_ind, called by the interrupt of the UART: rt_sem_release resumes the
\* parser, or counts.
at_client_rx_ind ==
    /\ wire # <<>>
    /\ wire' = Tail(wire)
    /\ rx' = Append(rx, Head(wire))
    /\ \/ /\ parser = "asleep"
          /\ parser' = "read"
          /\ UNCHANGED rx_notice
       \/ /\ parser # "asleep"
          /\ rx_notice' = rx_notice + 1
          /\ UNCHANGED parser
    /\ UNCHANGED <<client, resp_notice, call, resp, sent, urcs, spoiled>>
-----------------------------------------------------------------------------
\* at_client_getchar: nothing to read, so reset the semaphore and wait on it.
ReadNothing ==
    /\ parser = "read" /\ rx = <<>>
    /\ parser' = "reset"
    /\ UNCHANGED <<wire, rx, rx_notice, client, resp_notice, call, resp, sent, urcs, spoiled>>

ResetNotice ==
    /\ parser = "reset"
    /\ parser' = "take"
    /\ rx_notice' = 0
    /\ UNCHANGED <<wire, rx, client, resp_notice, call, resp, sent, urcs, spoiled>>

\* Mutant: the semaphore counts below zero.
TakeNotice_Unchecked ==
    /\ parser = "take"
    /\ rx_notice' = rx_notice - 1
    /\ parser' = "read"
    /\ UNCHANGED <<wire, rx, client, resp_notice, call, resp, sent, urcs, spoiled>>

TakeNotice ==
    /\ parser = "take"
    /\ \/ /\ rx_notice > 0
          /\ rx_notice' = rx_notice - 1
          /\ parser' = "read"
       \/ /\ rx_notice = 0
          /\ parser' = "asleep"
          /\ UNCHANGED rx_notice
    /\ UNCHANGED <<wire, rx, client, resp_notice, call, resp, sent, urcs, spoiled>>

\* A line that fits is stored, another one is dropped.
Fits(r) == Len(r.lines) + 1 < BufSize

Store(r, line) ==
    [r EXCEPT !.lines = IF Fits(r) THEN Append(@, line) ELSE @, !.touched = r.freed]

StatusAfterStore(r) == IF Fits(r) THEN client.resp_status ELSE "BUFF_FULL"

\* The line ends the response, with this status; r is the object with the line stored.
EndsOk(r, line) ==
    \/ line.kind = "OK" /\ call.line_num = 0
    \/ line.kind # "ERROR" /\ Len(r.lines) = call.line_num /\ call.line_num # 0
EndsError(line) == line.kind = "ERROR"

\* Mutant: client->resp is kept when the response ends.
EndResponse_KeepsResp(status) ==
    /\ client' = [client EXCEPT !.resp_status = status]
    /\ \/ /\ call.pc = "waiting"
          /\ call' = [call EXCEPT !.pc = "woken", !.ended = TRUE, !.dropped = @ \/ ~Fits(resp)]
          /\ UNCHANGED resp_notice
       \/ /\ call.pc # "waiting"
          /\ call' = [call EXCEPT !.ended = TRUE, !.dropped = @ \/ ~Fits(resp)]
          /\ resp_notice' = resp_notice + 1

\* client->resp = RT_NULL and rt_sem_release(resp_notice), which resumes a waiting call.
EndResponse(status) ==
    /\ client' = [resp |-> FALSE, resp_status |-> status]
    /\ \/ /\ call.pc = "waiting"
          /\ call' = [call EXCEPT !.pc = "woken", !.ended = TRUE, !.dropped = @ \/ ~Fits(resp)]
          /\ UNCHANGED resp_notice
       \/ /\ call.pc # "waiting"
          /\ call' = [call EXCEPT !.ended = TRUE, !.dropped = @ \/ ~Fits(resp)]
          /\ resp_notice' = resp_notice + 1

ReadLine ==
    /\ parser = "read" /\ rx # <<>>
    /\ rx' = Tail(rx)

\* A line for no one: too long for recv_line_buf, unsolicited (its handler is external), or
\* no response is wanted.
SkipLine ==
    /\ ReadLine
    /\ Head(rx).kind \in {"long", "urc"} \/ ~client.resp
    /\ UNCHANGED <<wire, rx_notice, parser, client, resp_notice, call, resp, sent, urcs, spoiled>>

\* A line of a response: stored if it fits, and checked for the end of the response.
ParseLine ==
    /\ ReadLine
    /\ Head(rx).kind \notin {"long", "urc"} /\ client.resp
    /\ resp' = Store(resp, Head(rx))
    /\ \/ /\ EndsOk(resp', Head(rx))
          /\ EndResponse("OK")
       \/ /\ EndsError(Head(rx))
          /\ EndResponse("ERROR")
       \/ /\ ~EndsOk(resp', Head(rx)) /\ ~EndsError(Head(rx))
          /\ client' = [client EXCEPT !.resp_status = StatusAfterStore(resp)]
          /\ call' = [call EXCEPT !.dropped = @ \/ ~Fits(resp)]
          /\ UNCHANGED resp_notice
    /\ UNCHANGED <<wire, rx_notice, parser, sent, urcs, spoiled>>

Parser == ReadNothing \/ ResetNotice \/ TakeNotice \/ SkipLine \/ ParseLine
-----------------------------------------------------------------------------
\* Mutant: the status of the call before is kept.
ExecBegin_KeepsStatus(line_num) ==
    /\ call.pc = "idle" /\ sent < MaxSent
    /\ call' = [Idle EXCEPT !.pc = "begun", !.op = "exec", !.resp = TRUE,
                            !.line_num = line_num, !.cmd = sent + 1]
    /\ client' = [client EXCEPT !.resp = TRUE]
    /\ resp' \in {NoResp, [resp EXCEPT !.touched = FALSE, !.freed = FALSE]}
    /\ UNCHANGED <<uartVars, resp_notice, sent, spoiled>>

\* at_obj_exec_cmd takes the lock and hands its response object, new or used before, to
\* the parser.
ExecBegin(line_num) ==
    /\ call.pc = "idle" /\ sent < MaxSent
    /\ call' = [Idle EXCEPT !.pc = "begun", !.op = "exec", !.resp = TRUE,
                            !.line_num = line_num, !.cmd = sent + 1]
    /\ client' = [resp |-> TRUE, resp_status |-> "OK"]
    /\ resp' \in {NoResp, [resp EXCEPT !.touched = FALSE, !.freed = FALSE]}
    /\ UNCHANGED <<uartVars, resp_notice, sent, spoiled>>

\* at_obj_exec_cmd with resp == RT_NULL: the answer is not waited for.
ExecNoResponse ==
    /\ call.pc = "idle" /\ sent < MaxSent
    /\ call' = [Idle EXCEPT !.pc = "exit", !.op = "exec", !.cmd = sent + 1, !.result = "EOK"]
    /\ client' = [resp |-> FALSE, resp_status |-> "OK"]
    /\ \E answer \in Answers :
          /\ Write(answer)
          /\ spoiled' = (spoiled \/ answer # <<>>)
    /\ UNCHANGED <<rx, rx_notice, parser, urcs, resp_notice, resp>>

\* Mutant: the response object is not emptied.
ExecWrite_KeepsLines ==
    /\ call.pc = "begun" /\ call.op = "exec"
    /\ call' = [call EXCEPT !.pc = "sent"]
    /\ \E answer \in Answers :
          /\ Write(answer)
          /\ spoiled' = (spoiled \/ call.line_num \in 1 .. Len(answer) - 1)
    /\ UNCHANGED <<rx, rx_notice, parser, urcs, client, resp_notice, resp>>

\* The response object is emptied and the command written.
ExecWrite ==
    /\ call.pc = "begun" /\ call.op = "exec"
    /\ call' = [call EXCEPT !.pc = "sent"]
    /\ resp' = [resp EXCEPT !.lines = <<>>]
    /\ \E answer \in Answers :
          /\ Write(answer)
          /\ spoiled' = (spoiled \/ call.line_num \in 1 .. Len(answer) - 1)
    /\ UNCHANGED <<rx, rx_notice, parser, urcs, client, resp_notice>>

\* rt_sem_take(client->resp_notice, resp->timeout).
TakeResponse ==
    /\ call.pc = "sent"
    /\ \/ /\ resp_notice > 0
          /\ resp_notice' = resp_notice - 1
          /\ call' = [call EXCEPT !.pc = "woken"]
       \/ /\ resp_notice = 0
          /\ call' = [call EXCEPT !.pc = "waiting"]
          /\ UNCHANGED resp_notice
    /\ UNCHANGED <<uartVars, client, resp, sent, spoiled>>

\* Mutant: the wait has no timeout.
Timeout_Never == FALSE /\ UNCHANGED vars

\* The timer of the waiting caller runs out.
Timeout ==
    /\ call.pc = "waiting"
    /\ call' = [call EXCEPT !.pc = "expired"]
    /\ spoiled' = TRUE
    /\ UNCHANGED <<uartVars, client, resp_notice, resp, sent>>

ExecExpired ==
    /\ call.pc = "expired" /\ call.op = "exec"
    /\ client' = [client EXCEPT !.resp_status = "TIMEOUT"]
    /\ call' = [call EXCEPT !.pc = "exit", !.result = "ETIMEOUT"]
    /\ UNCHANGED <<uartVars, resp_notice, resp, sent, spoiled>>

ExecCheck ==
    /\ call.pc = "woken" /\ call.op = "exec"
    /\ call' = [call EXCEPT !.pc = "exit",
                            !.result = IF client.resp_status = "OK" THEN "EOK" ELSE "ERROR"]
    /\ UNCHANGED <<uartVars, client, resp_notice, resp, sent, spoiled>>

\* __exit: client->resp = RT_NULL, the lock is released, the call returns.
Exit ==
    /\ call.pc = "exit"
    /\ client' = [client EXCEPT !.resp = FALSE]
    /\ call' = Idle
    /\ UNCHANGED <<uartVars, resp_notice, resp, sent, spoiled>>
-----------------------------------------------------------------------------
\* at_client_obj_wait_connect creates a response object and takes the lock.
ConnectBegin ==
    /\ call.pc = "idle" /\ sent < MaxSent
    /\ call' = [Idle EXCEPT !.pc = "begun", !.op = "connect", !.resp = TRUE]
    /\ client' = [client EXCEPT !.resp = TRUE]
    /\ resp' = NoResp
    /\ UNCHANGED <<uartVars, resp_notice, sent, spoiled>>

\* There is time left: "AT" is written (again).
ConnectWrite ==
    /\ call.pc = "begun" /\ call.op = "connect" /\ sent < MaxSent
    /\ call' = [call EXCEPT !.pc = "sent", !.cmd = sent + 1]
    /\ resp' = [resp EXCEPT !.lines = <<>>]
    /\ \E answer \in Answers : Write(answer)
    /\ UNCHANGED <<rx, rx_notice, parser, urcs, client, resp_notice, spoiled>>

\* The connect timeout, much longer than that of one "AT", is over.
ConnectGivesUp ==
    /\ call.pc = "begun" /\ call.op = "connect" /\ call.cmd # 0
    /\ call' = [call EXCEPT !.pc = "free", !.result = "ETIMEOUT"]
    /\ UNCHANGED <<uartVars, client, resp_notice, resp, sent, spoiled>>

ConnectExpired ==
    /\ call.pc = "expired" /\ call.op = "connect"
    /\ call' = [call EXCEPT !.pc = "begun"]
    /\ UNCHANGED <<uartVars, client, resp_notice, resp, sent, spoiled>>

ConnectWoken ==
    /\ call.pc = "woken" /\ call.op = "connect"
    /\ call' = [call EXCEPT !.pc = "free", !.result = "EOK"]
    /\ UNCHANGED <<uartVars, client, resp_notice, resp, sent, spoiled>>

\* at_delete_resp.
ConnectFree ==
    /\ call.pc = "free"
    /\ call' = [call EXCEPT !.pc = "exit"]
    /\ resp' = [resp EXCEPT !.freed = TRUE]
    /\ UNCHANGED <<uartVars, client, resp_notice, sent, spoiled>>

CallStep ==
    \/ ExecWrite \/ TakeResponse \/ ExecExpired \/ ExecCheck \/ Exit
    \/ ConnectWrite \/ ConnectGivesUp \/ ConnectExpired \/ ConnectWoken \/ ConnectFree

Begin ==
    \/ \E line_num \in LineNums : ExecBegin(line_num)
    \/ ExecNoResponse
    \/ ConnectBegin

Next == UrcSent \/ at_client_rx_ind \/ Parser \/ Begin \/ CallStep \/ Timeout

Spec == Init /\ [][Next]_vars

\* Threads that can run do, and timers run out; the modem need not answer.
FairSpec == Spec /\ WF_vars(Parser) /\ WF_vars(CallStep) /\ WF_vars(Timeout)
-----------------------------------------------------------------------------
AllLines == [cmd : 0 .. MaxSent, kind : Kinds]

ClientRecords ==
    [resp : BOOLEAN, resp_status : {"OK", "ERROR", "TIMEOUT", "BUFF_FULL"}]

CallRecords ==
    [pc : {"idle", "begun", "sent", "waiting", "woken", "expired", "free", "exit"},
     op : {"none", "exec", "connect"}, resp : BOOLEAN, line_num : Nat, cmd : Nat,
     result : {"none", "EOK", "ERROR", "ETIMEOUT"}, ended : BOOLEAN, dropped : BOOLEAN]

RespObjects == [lines : Seq(AllLines), freed : BOOLEAN, touched : BOOLEAN]

\* Every variable has its type.
TypeOK ==
    /\ wire \in Seq(AllLines) /\ rx \in Seq(AllLines)
    /\ rx_notice \in Nat /\ resp_notice \in Nat
    /\ parser \in {"read", "reset", "take", "asleep"}
    /\ client \in ClientRecords
    /\ call \in CallRecords
    /\ resp \in RespObjects
    /\ sent \in 0 .. MaxSent /\ urcs \in 0 .. MaxUrc
    /\ spoiled \in BOOLEAN

\* A timed-out or overtaken call leaves at most one notice behind, so stale notices
\* do not pile up in resp_notice; only a call in progress may add a second one.
AtMostOneStaleNotice ==
    resp_notice + (IF client.resp THEN 1 ELSE 0) <= IF call.pc = "idle" THEN 1 ELSE 2

\* As long as no call timed out, every call waited for its answer and asked for all its
\* lines, answers are never mixed up: a call returns with lines of its own command only,
\* and with success exactly when its last line is not an error.
OwnAnswer ==
    ~spoiled /\ call.pc = "exit" /\ call.op = "exec" /\ call.resp =>
        /\ call.ended
        /\ \A i \in DOMAIN resp.lines : resp.lines[i].cmd = call.cmd
        /\ ~call.dropped =>
              (call.result = "EOK" <=> resp.lines[Len(resp.lines)].kind # "ERROR")

\* An error is never inherited: a call fails with -RT_ERROR only if, during this very call,
\* the parser ended its response or could not store a line of it.
ErrorHasCause ==
    call.pc = "exit" /\ call.result = "ERROR" => call.ended \/ call.dropped

\* Every call returns, whether the modem answers, answers late or never.
CallReturns == (call.pc # "idle") ~> (call.pc = "idle")

\* A call that wants a response succeeds only when, during it, the modem's answer came to
\* its end ("the response data will auto return when received 'OK' or 'ERROR'").
SuccessIsAnswered ==
    call.pc = "exit" /\ call.op = "exec" /\ call.resp /\ call.result = "EOK" => call.ended

\* The parser does not sleep on data that was received.
ReceivedIsRead == parser = "asleep" => rx = <<>>

\* A response object that at_delete_resp freed is not written any more.  This does not hold:
\* see the README, "Findings".
FreedIsUntouched == ~resp.touched
=============================================================================
