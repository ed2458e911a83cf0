-------------------------------- MODULE Ps2 --------------------------------
(***************************************************************************)
(* The PS/2 driver (src/drv/ps2.c) against a controller of any speed, with  *)
(* the keyboard drivers behind it (src/drv/ps2kbd.c, module Kbd).           *)
(*                                                                          *)
(* ps2_init talks to the controller through two one-byte buffers.  It polls *)
(* each of them for PS2_TO_DEFAULT rounds; when a round runs out it goes on  *)
(* as if the buffer were ready (the loops stop at 0 and only a negative     *)
(* count is an error), overwriting a byte or reading an old one.  The       *)
(* controller, its two devices and the interrupt lines are the environment. *)
(* A byte is the set of its bits.  Interrupts arrive as in Interrupts, the  *)
(* 8259 pair being wired to the CPU itself.                                 *)
(***************************************************************************)
EXTENDS Kbd

CONSTANTS
    ScanCodes,     \* the bytes that the keyboard sends once it is set up
    PS2_TO_DEFAULT, \* how often a wait polls the controller
    MaxNoise       \* bound: the bytes devices send while the driver starts

ASSUME Ps2Constants ==
    ScanCodes \subseteq SUBSET (0 .. 7) /\ PS2_TO_DEFAULT \in Nat /\ MaxNoise \in Nat

\* The bytes of the protocol, as the sets of their bits.
PS2_SELF_TEST_SUCCESS == {0, 2, 4, 6}       \* 0x55
PS2_RES_ACK == {1, 3, 4, 5, 6, 7}           \* 0xFA
Reset == 0 .. 7                             \* 0xFF
NO_USABLE_CHANNEL == 2 .. 15                \* -4, as an int16_t
BatPassed == {1, 3, 5, 7}                   \* 0xAA, a device that was reset

\* The bits of the controller configuration byte.
INTR(n)  == n - 1                           \* PS2_CCB_MASK_INTR_FIRST, _SECOND
CLOCK(n) == n + 3                           \* PS2_CCB_MASK_CLOCK1, _CLOCK2
TRANS1   == 6

Low(word) == word \intersect (0 .. 7)       \* the low byte of a response

Channels == 1 .. 2
NoByte   == "none"
NoCall   == [at |-> "none"]

VARIABLES
    hw,       \* what works: the self test, a second channel, each device
    ctl,      \* the controller: configuration byte, buffers
    irr,      \* the PIC's latched requests, by channel
    pc,       \* the step of ps2_init, then of ps2kbd_init
    call,     \* the call of ps2_send_internal in progress: its point and arguments
    resp,     \* what the last call returned: a byte, or a negative error
    ccb,      \* the local variable ccb of ps2_init
    channel_status, \* the bits of the two bytes of channel_status
    result,   \* what ps2_init returned: a negative error's name, or "status"
    registered, \* the active flag and the callback of each channel
    pic,      \* the lines enabled with pic_enable_irq
    intr,     \* interrupts are enabled on the CPU
    missed,   \* history: a wait ran out on a byte that the controller had not
              \* taken yet, or a byte was written over another
    noise,    \* history: a device sent a byte while ps2_init expected answers
    sent      \* the bytes devices sent while the driver started

drvvars == <<pc, call, resp, ccb, channel_status, result, registered, pic, intr>>
vars == <<hw, ctl, irr, drvvars, missed, noise, sent, kbdvars>>

----------------------------------------------------------------------------
(* The controller and the devices *)

\* The line that a byte of source s raises; the controller's own answers
\* (source 0) share the keyboard's.
Line(s) == IF s = 2 THEN 2 ELSE 1

\* The requests latched when the controller goes from c to d.
Latch(c, d) ==
    irr' = irr \union { n \in Channels : /\ d.full /\ Line(d.src) = n /\ INTR(n) \in d.ccb
                                         /\ ~(c.full /\ INTR(n) \in c.ccb) }

Ccb(bits) == IF hw.two THEN bits ELSE bits \union {CLOCK(2)}

Fill(s, b) == [ctl EXCEPT !.full = TRUE, !.data = b, !.src = s]

\* What the controller does with a byte it takes from its input buffer.
Obey(port, b) ==
    LET set(bits) == [ctl EXCEPT !.expect = "dev1", !.ccb = Ccb(bits)]
        device(n) == IF hw.dev[n] /\ b = Reset THEN Fill(n, PS2_RES_ACK) ELSE ctl
        test(n)   == Fill(0, IF hw.dev[n] THEN {} ELSE {0})
    IN  IF port = "data"
        THEN CASE ctl.expect = "ccb"  -> set(b)
               [] ctl.expect = "dev2" -> [device(2) EXCEPT !.expect = "dev1"]
               [] OTHER -> device(1)
        ELSE CASE b = "DISABLE_1ST" -> set(ctl.ccb \union {CLOCK(1)})
               [] b = "DISABLE_2ND" -> set(ctl.ccb \union {CLOCK(2)})
               [] b = "ENABLE_1ST"  -> set(ctl.ccb \ {CLOCK(1)})
               [] b = "ENABLE_2ND"  -> set(ctl.ccb \ {CLOCK(2)})
               [] b = "READ_CCB"    -> Fill(0, ctl.ccb)
               [] b = "WRITE_CCB"   -> [ctl EXCEPT !.expect = "ccb"]
               [] b = "SEL_2ND"     -> [ctl EXCEPT !.expect = "dev2"]
               [] b = "SELF_TEST"   -> Fill(0, IF hw.self THEN PS2_SELF_TEST_SUCCESS ELSE {})
               [] b = "TEST_1ST"    -> test(1)
               [] b = "TEST_2ND"    -> test(2)

\* The bytes that are answered.
Answers(port, b) ==
    IF port = "data" THEN ctl.expect # "ccb" ELSE b \in {"READ_CCB", "SELF_TEST", "TEST_1ST", "TEST_2ND"}

\* The controller takes the byte in its input buffer, once its output buffer can
\* hold the answer if there is one.
Take ==
    /\ ctl.in # <<>> /\ (ctl.full => ~Answers(ctl.in[1], ctl.in[2]))
    /\ ctl' = [Obey(ctl.in[1], ctl.in[2]) EXCEPT !.in = <<>>]
    /\ Latch(ctl, ctl')
    /\ UNCHANGED <<hw, drvvars, missed, noise, sent, kbdvars>>

\* A device of an enabled channel sends a byte of its own.
DeviceSends(n) ==
    /\ ~ctl.full /\ CLOCK(n) \notin ctl.ccb
    /\ \E b \in IF n = 1 /\ pc = "ready" THEN ScanCodes ELSE {BatPassed} : ctl' = Fill(n, b)
    /\ Latch(ctl, ctl')
    /\ noise' = (noise \/ pc \notin {"step1", "step1b", "step2", "kbd", "kbd2", "ready"})
    /\ IF pc = "ready" THEN UNCHANGED sent ELSE sent < MaxNoise /\ sent' = sent + 1
    /\ UNCHANGED <<hw, drvvars, missed, kbdvars>>

----------------------------------------------------------------------------
(* ps2_send_internal and its wrappers *)

\* A call: the command or data byte, the second byte of a double, the flags.
Call(send, next, flags) ==
    [at |-> "first", send |-> send, next |-> next, flags |-> flags, ms |-> PS2_TO_DEFAULT]

ps2_send_cmd(cmd)                 == Call(cmd, NoByte, {})
ps2_send_cmd_resp(cmd)            == Call(cmd, NoByte, {"RESPONSE"})
ps2_send_cmd_double(cmd, cmd2)    == Call(cmd, cmd2, {"DOUBLE"})
ps2_send_data_response(data)      == Call(NoByte, data, {"DATA", "RESPONSE"})
ps2_send_data_response_second(data) == Call(NoByte, data, {"DATA", "RESPONSE", "SECOND"})

\* What the call does after its bytes are written.
Written == IF "RESPONSE" \in call.flags
           THEN call' = [call EXCEPT !.at = "read", !.ms = PS2_TO_DEFAULT] /\ UNCHANGED resp
           ELSE call' = NoCall /\ resp' = {}

outb(port, b) ==
    /\ ctl' = [ctl EXCEPT !.in = <<port, b>>]
    /\ missed' = (missed \/ ctl.in # <<>>)

\* The channels that the call needs are unusable.
Unusable ==
    IF "DATA" \in call.flags
    THEN channel_status[IF "SECOND" \in call.flags THEN 2 ELSE 1] # {}
    ELSE \A n \in Channels : channel_status[n] # {}

\* The call up to its first byte, which is written without waiting.
SendFirst ==
    /\ call.at = "first"
    /\ IF Unusable
       THEN call' = NoCall /\ resp' = NO_USABLE_CHANNEL /\ UNCHANGED <<ctl, missed>>
       ELSE IF call.flags \intersect {"DATA", "SECOND"} = {"DATA"}
       THEN call' = [call EXCEPT !.at = "data"] /\ UNCHANGED <<ctl, missed, resp>>
       ELSE /\ outb("status", IF "SECOND" \in call.flags THEN "SEL_2ND" ELSE call.send)
            /\ IF call.flags \intersect {"SECOND", "DOUBLE"} # {}
               THEN call' = [call EXCEPT !.at = "data"] /\ UNCHANGED resp
               ELSE Written
    /\ UNCHANGED <<hw, irr, pc, ccb, channel_status, result, registered, pic, intr, noise, sent, kbdvars>>

\* The buffer a wait polls is not ready.
Busy == \/ call.at = "data" /\ ctl.in # <<>>
        \/ call.at = "read" /\ ~ctl.full

\* Mutant: the rounds of a wait are not counted.
PollForever ==
    /\ Busy /\ call.ms > 0
    /\ UNCHANGED call
    /\ UNCHANGED <<hw, ctl, irr, pc, resp, ccb, channel_status, result, registered, pic, intr,
                   missed, noise, sent, kbdvars>>

\* One round of wait_data_ready or wait_buffer_ready.
Poll ==
    /\ Busy /\ call.ms > 0
    /\ call' = [call EXCEPT !.ms = @ - 1]
    /\ UNCHANGED <<hw, ctl, irr, pc, resp, ccb, channel_status, result, registered, pic, intr,
                   missed, noise, sent, kbdvars>>

\* wait_buffer_ready is over: the data byte is written, ready or not.
SendData ==
    /\ call.at = "data" /\ (~Busy \/ call.ms = 0)
    /\ outb("data", call.next)
    /\ Written
    /\ UNCHANGED <<hw, irr, pc, ccb, channel_status, result, registered, pic, intr, noise, sent, kbdvars>>

inb == ctl' = [ctl EXCEPT !.full = FALSE]

\* wait_data_ready is over: the answer is read, there or not.
SendRead ==
    /\ call.at = "read" /\ (~Busy \/ call.ms = 0)
    /\ inb
    /\ missed' = (missed \/ (~ctl.full /\ ctl.in # <<>>))
    /\ resp' = ctl.data
    /\ call' = NoCall
    /\ UNCHANGED <<hw, irr, pc, ccb, channel_status, result, registered, pic, intr, noise, sent, kbdvars>>

----------------------------------------------------------------------------
(* ps2_init *)

At(label) == pc = label /\ call = NoCall
Failed == 15 \in resp                       \* resp < 0

\* ps2_init makes the call c and goes on at the label.
Goto(label, c) == pc' = label /\ call' = c /\ UNCHANGED <<resp, result>>

\* ps2_init returns; its local variables are gone.
Returns(res) == pc' = "kbd" /\ result' = res /\ resp' = {} /\ ccb' = {} /\ UNCHANGED call

\* resp < 0: ps2_init returns the error of the call.
GiveUp == Returns("NO_USABLE_CHANNEL") /\ UNCHANGED channel_status

\* What no step of ps2_init changes, and what most leave alone.
Quiet == UNCHANGED <<hw, irr, intr, missed, noise, sent, kbdvars>>
Still == Quiet /\ UNCHANGED <<ctl, registered, pic>>

\* A step that only makes a call.
Calls(label, next, c) == At(label) /\ Goto(next, c) /\ Still /\ UNCHANGED <<ccb, channel_status>>

\* Step 1: no device may send.
DisableFirst ==
    /\ At("step1") /\ Goto("step1b", ps2_send_cmd("DISABLE_1ST"))
    /\ registered' = [n \in Channels |-> [active |-> FALSE, callback |-> FALSE]]
    /\ Quiet /\ UNCHANGED <<ctl, pic, ccb, channel_status>>

DisableSecond == Calls("step1b", "step2", ps2_send_cmd("DISABLE_2ND"))

\* Mutant: the output buffer is not flushed.
NoFlush == Calls("step2", "step3", ps2_send_cmd_resp("READ_CCB"))

\* Steps 2 and 3: flush the output buffer, read the configuration byte.
Flush ==
    /\ At("step2") /\ Goto("step3", ps2_send_cmd_resp("READ_CCB"))
    /\ inb
    /\ Quiet /\ UNCHANGED <<registered, pic, ccb, channel_status>>

\* Mutant: the configuration byte keeps its interrupt bits.
KeepInterrupts ==
    /\ At("step3") /\ Still
    /\ ccb' = resp \ {TRANS1}
    /\ Goto("step4", ps2_send_cmd_double("WRITE_CCB", ccb'))
    /\ UNCHANGED channel_status

\* Step 3: no interrupts and no translation.
ClearCcb ==
    /\ At("step3") /\ Still
    /\ IF Failed THEN GiveUp
       ELSE /\ ccb' = resp \ {INTR(1), INTR(2), TRANS1}
            /\ Goto("step4", ps2_send_cmd_double("WRITE_CCB", ccb'))
            /\ UNCHANGED channel_status

SelfTest == Calls("step4", "step4b", ps2_send_cmd_resp("SELF_TEST"))

\* Step 4: the controller must answer its self test; step 5 tries channel 2.
SelfTested ==
    /\ At("step4b") /\ Still
    /\ IF Failed THEN GiveUp
       ELSE IF Low(resp) # PS2_SELF_TEST_SUCCESS
       THEN Returns("SELF_TEST_FAILURE") /\ channel_status' = [n \in Channels |-> {0}]
       ELSE Goto("step5", ps2_send_cmd("ENABLE_2ND")) /\ UNCHANGED <<ccb, channel_status>>

ReadBack == Calls("step5", "step5b", ps2_send_cmd_resp("READ_CCB"))

\* Step 5: a clock that stays disabled means that there is no second channel.
CountChannels ==
    /\ At("step5b") /\ Still
    /\ IF Failed THEN Returns("NO_USABLE_CHANNEL") /\ channel_status' = [n \in Channels |-> {1}]
       ELSE /\ UNCHANGED ccb
            /\ IF CLOCK(2) \in resp
               THEN Goto("step6", NoCall) /\ channel_status' = [n \in Channels |-> IF n = 2 THEN {2} ELSE {}]
               ELSE Goto("step6", ps2_send_cmd("DISABLE_2ND")) /\ UNCHANGED channel_status

TestFirst == Calls("step6", "step6b", ps2_send_cmd_resp("TEST_1ST"))

\* Step 6: only an error of the call counts, not what the test answers.
TestSecond ==
    /\ At("step6b") /\ Still
    /\ channel_status' = [channel_status EXCEPT ![1] = IF Failed THEN @ \union {3} ELSE @]
    /\ Goto("step6c", IF channel_status[2] = {} THEN ps2_send_cmd_resp("TEST_2ND") ELSE NoCall)
    /\ UNCHANGED ccb

Tested ==
    /\ At("step6c") /\ Still
    /\ channel_status' = [channel_status EXCEPT ![2] = IF Failed /\ @ = {} THEN {3} ELSE @]
    /\ IF \A n \in Channels : channel_status'[n] # {}
       THEN Returns("NO_USABLE_CHANNEL")
       ELSE Goto("step7", ps2_send_cmd_resp("READ_CCB")) /\ UNCHANGED ccb

\* Step 7: enable channel n if it works, and its interrupts in the byte b.
EnableChannel(n, b, next, cmd) ==
    /\ ccb' = IF channel_status[n] = {} THEN b \union {INTR(n)} ELSE b
    /\ Goto(next, IF channel_status[n] = {} THEN ps2_send_cmd(cmd) ELSE NoCall)
    /\ UNCHANGED channel_status

EnableFirst ==
    /\ At("step7") /\ Still
    /\ IF Failed THEN GiveUp ELSE EnableChannel(1, Low(resp), "step7b", "ENABLE_1ST")

EnableSecond ==
    /\ At("step7b") /\ Still
    /\ EnableChannel(2, ccb, "step7c", "ENABLE_2ND")

WriteCcb == Calls("step7c", "step8", ps2_send_cmd_double("WRITE_CCB", ccb))

\* Step 8: reset each device that is in use; it must acknowledge.
ResetFirst ==
    Calls("step8", "step8b", IF channel_status[1] = {} THEN ps2_send_data_response(Reset) ELSE NoCall)

\* Mutant: the bit that is set depends on the channel.
AcknowledgedShifted(n) ==
    [channel_status EXCEPT ![n] = IF @ = {} /\ Low(resp) # PS2_RES_ACK THEN {2 * n} ELSE @]

\* The channels after the answer to the reset of device n.
Acknowledged(n) ==
    [channel_status EXCEPT ![n] = IF @ = {} /\ Low(resp) # PS2_RES_ACK THEN {2} ELSE @]

ResetSecond ==
    /\ At("step8b") /\ Still
    /\ channel_status' = Acknowledged(1)
    /\ Goto("step9", IF channel_status[2] = {} THEN ps2_send_data_response_second(Reset) ELSE NoCall)
    /\ UNCHANGED ccb

\* The handlers are registered and the lines enabled, whatever the devices said.
EnableIrqs ==
    /\ At("step9") /\ Quiet
    /\ channel_status' = Acknowledged(2)
    /\ pic' = Channels
    /\ Returns("status")
    /\ UNCHANGED <<ctl, registered>>

----------------------------------------------------------------------------
(* ps2kbd_init and the interrupts *)

\* ps2_register for channel 1: the flag first, then the callback.
ps2_register ==
    /\ At("kbd")
    /\ IF channel_status[1] # {} \/ registered[1].active
       THEN pc' = "ready" /\ UNCHANGED registered
       ELSE pc' = "kbd2" /\ registered' = [registered EXCEPT ![1].active = TRUE]
    /\ UNCHANGED <<hw, ctl, irr, call, resp, ccb, channel_status, result, pic, intr, missed, noise, sent, kbdvars>>

SetCallback ==
    /\ At("kbd2") /\ pc' = "ready"
    /\ registered' = [registered EXCEPT ![1].callback = TRUE]
    /\ UNCHANGED <<hw, ctl, irr, call, resp, ccb, channel_status, result, pic, intr, missed, noise, sent, kbdvars>>

\* Mutant: interrupts are already on while the drivers start.
EnableIntEarly ==
    /\ ~intr /\ intr' = TRUE
    /\ UNCHANGED <<hw, ctl, irr, pc, call, resp, ccb, channel_status, result, registered, pic,
                   missed, noise, sent, kbdvars>>

\* cpu_common_main turns interrupts on when the drivers have started.
enable_int ==
    /\ ~intr /\ pc = "ready" /\ intr' = TRUE
    /\ UNCHANGED <<hw, ctl, irr, pc, call, resp, ccb, channel_status, result, registered, pic,
                   missed, noise, sent, kbdvars>>

\* Mutant: the handler of a channel nobody registered for reads nothing.
HandlerSkips(n) ==
    /\ intr /\ n \in irr \intersect pic
    /\ irr' = irr \ {n}
    /\ IF registered[n].active
       THEN kbd_add_scancode(ctl.data) /\ inb
       ELSE UNCHANGED <<kbdvars, ctl>>
    /\ UNCHANGED <<hw, drvvars, missed, noise, sent>>

\* ps2_handle_interrupt_1st and _2nd: read the byte, pass it to the driver.
ps2_handle_interrupt(n) ==
    /\ intr /\ n \in irr \intersect pic
    /\ irr' = irr \ {n}
    /\ inb
    /\ IF registered[n].active THEN kbd_add_scancode(ctl.data) ELSE UNCHANGED kbdvars
    /\ UNCHANGED <<hw, drvvars, missed, noise, sent>>

Init ==
    /\ hw \in { h \in [self : BOOLEAN, two : BOOLEAN, dev : [Channels -> BOOLEAN]] :
                  (h.dev[1] => h.self) /\ (h.dev[2] => h.self /\ h.two) }
    /\ ctl = [ccb |-> Ccb({INTR(1), INTR(2), TRANS1}), in |-> <<>>, expect |-> "dev1",
              full |-> FALSE, data |-> {}, src |-> 0]
    /\ irr = {} /\ pic = {} /\ intr = FALSE /\ missed = FALSE /\ noise = FALSE /\ sent = 0
    /\ pc = "step1" /\ call = NoCall /\ resp = {} /\ ccb = {} /\ result = "none"
    /\ channel_status = [n \in Channels |-> {}]
    /\ registered = [n \in Channels |-> [active |-> FALSE, callback |-> FALSE]]
    /\ kbd_init

Driver ==
    \/ SendFirst \/ Poll \/ SendData \/ SendRead
    \/ DisableFirst \/ DisableSecond \/ Flush \/ ClearCcb \/ SelfTest \/ SelfTested
    \/ ReadBack \/ CountChannels \/ TestFirst \/ TestSecond \/ Tested
    \/ EnableFirst \/ EnableSecond \/ WriteCcb \/ ResetFirst \/ ResetSecond \/ EnableIrqs
    \/ ps2_register \/ SetCallback

Interrupts == enable_int \/ \E n \in Channels : ps2_handle_interrupt(n)

Next == Driver \/ Interrupts \/ Take \/ \E n \in Channels : DeviceSends(n)

\* The CPU executes the driver and takes the interrupts; the controller and the
\* devices may stop at any time.
Fairness ==
    WF_vars(Driver) /\ WF_vars(enable_int) /\ \A n \in Channels : WF_vars(ps2_handle_interrupt(n))

Spec == Init /\ [][Next]_vars /\ Fairness

----------------------------------------------------------------------------
(* What the PS/2 driver promises *)

TypeOK ==
    /\ ctl.ccb \subseteq 0 .. 7 /\ ctl.data \subseteq 0 .. 7 /\ ctl.full \in BOOLEAN
    /\ irr \subseteq Channels /\ pic \subseteq Channels
    /\ ccb \subseteq 0 .. 7
    /\ channel_status \in [Channels -> SUBSET (0 .. 3)]
    /\ registered \in [Channels -> [active : BOOLEAN, callback : BOOLEAN]]
    /\ result \in {"none", "status", "SELF_TEST_FAILURE", "NO_USABLE_CHANNEL"}

\* What ps2_init returns is what the hardware is: an error exactly when the self
\* test fails, else a status in which channel 1 is usable exactly when its device
\* acknowledges the reset, and channel 2 if it is there and its device does, but
\* not without it or without any device.  Whether a second device that is missing
\* beside a first one is noticed is not said here (see ZeroMeansBoth).  It needs a
\* controller that keeps up and devices that are silent while it is asked: a late
\* answer is taken for the next one.
ResultIsTrue ==
    result # "none" /\ ~missed /\ ~noise =>
        IF ~hw.self THEN result = "SELF_TEST_FAILURE"
        ELSE /\ result = "status"
             /\ (channel_status[1] = {}) <=> hw.dev[1]
             /\ hw.two /\ hw.dev[2] => channel_status[2] = {}
             /\ channel_status[2] = {} => hw.two /\ (hw.dev[1] \/ hw.dev[2])

\* ps2.h says of what ps2_init returns: "Returns a positive value if 1 or 2 devices
\* work, 0 if both work".  With a controller that keeps up and silent devices, 0
\* would mean that both are there.
ZeroMeansBoth ==
    result = "status" /\ ~missed /\ ~noise /\ (\A n \in Channels : channel_status[n] = {}) =>
        \A n \in Channels : hw.dev[n]

\* ps2_init gives up only when the self test fails: however slow the controller,
\* the error checks after the other calls are never taken.  Then the controller,
\* if it kept up, raises no interrupt, so that the lines left without a handler
\* stay silent.
FailureIsQuiet ==
    /\ ~Failed
    /\ result \in {"none", "status", "SELF_TEST_FAILURE"}
    /\ result = "SELF_TEST_FAILURE" /\ ~missed => {INTR(1), INTR(2)} \intersect ctl.ccb = {}

\* The interrupt handler never calls a callback that is not set: ps2_register
\* marks the channel active before it stores the callback.
CallbackIsSet == \A n \in Channels : intr /\ registered[n].active => registered[n].callback

\* ps2_init and ps2kbd_init end although the controller may never answer.
InitEnds == <>(pc = "ready")

\* A byte that raises an enabled line is read, whether or not a driver is
\* registered for its channel: until it is, the controller can send no other.
BytesAreRead ==
    \A n \in Channels :
        (intr /\ n \in pic /\ ctl.full /\ Line(ctl.src) = n /\ INTR(n) \in ctl.ccb) ~> ~ctl.full
============================================================================
