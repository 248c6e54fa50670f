# A TLA+ model of sdmmc_host_esp32

`sdmmc_host_esp32` is a `no_std` Rust driver for the SD/MMC host controller
(SDHOST) of the ESP32, a port of the driver of ESP-IDF to `esp-hal` and
`embassy`. This directory holds TLA+ modules for the parts of it that keep
state, TLC configurations that check them on small instances, and TLAPS proofs
of every safety property those runs check. `PROJECT.json` lists the runs, the mutants (a
changed definition for every property, which the property must catch), the
source lines behind every definition, the findings, the hazards and the
theorems.

Paths below are relative to `src/src/`, the crate's own source directory.

## 1. The system

One asynchronous thread (an embassy task: `bin/main.rs` and everything it
calls), one interrupt handler, one peripheral.

```
 main.rs: retry ─ SdmmcCard::init ─ send_cmd ─ do_transaction ─┬─ set_card_clk ─┐
                                                               ├─ dma_prepare   │ start_cmd
                                                               ├─ start_cmd ────┴──> CMD register
                                                               └─ handle_event <── EVENT_QUEUE (32)
                                                                        │                 ^
                                              dma_stop, fifo_reset ─> CTRL      inter::handler <─ RINTSTS, IDSTS
```

| component | state | operations | interacts with | what makes it correct |
|---|---|---|---|---|
| interrupt handler and event queue, `lib.rs` (`inter`) | RINTSTS, IDSTS, INTMASK, `EVENT_QUEUE`, `INTR_EVENT` | `bind`, `handler` | hardware (raises), thread (receives) | every interrupt is reported, none twice, none made up, the queue has room |
| host initialisation, `sdmmc.rs` `init`, `sdmmc/ll.rs` | CTRL, RINTSTS, masks (BMOD and IDINTEN are only written) | `init`, `reset`, `intmask_*`, `ll_init_dma` | handler (bound half way), clock | whatever an earlier boot left behind: the interrupt and the DMA on, nothing of it reported; it ends |
| transaction engine, `sdmmc_sd.rs` | `State`, `unhandled`, `SdmmcCmd::err`, CTRL | `do_transaction`, `handle_event`, `process_events`, `process_command_response`, `process_data_status`, `dma_stop` | queue, controller, callers in `sdmmc_sd/` | the answer it takes is to its own command; success means finished; errors are reported; a failed transfer stops the DMA; it returns |
| command issue, `sdmmc.rs` `start_cmd` | CMD, `active_slot` | `start_cmd`, `clk_update_cmd`, `change_to_slot` | controller, clock | a command waits for the one before it; both waits end |
| clock control, `sdmmc.rs`, `sdmmc/ll.rs` | CLK_EDGE_SEL, CLKDIV, CLKENA, TMOUT, `slot_ctx` | `set_clk_div`, `set_card_clk`, `set_clk_always_on`, `change_to_slot`, timeouts, `get_clk_divs` | command issue | a command finds the clock on, not too fast, with the timeouts asked for |
| card initialisation, `sdmmc_sd/init.rs`, `common.rs`, `cmd.rs`, `sdmmc_sd.rs` `new` and `init_sd_if_cond`, `bin/main.rs` | `ocr`, `is_mmc`, loop counters | `init`, `init_sd_if_cond`, `init_ocr`, `cmd_*`, `send_app_cmd`, `read_sectors_dma`, `main`'s loop | transaction engine, card | the driver is up only with a ready card, addressed as it wants; every attempt ends |
| command word, `hw_cmd.rs`, `cmd.rs` | none | `make_hw_cmd`, the bit field `SdmmcHwCmd`, `clk_update_cmd` | command issue | the fields do not overlap and say what the flags say |
| DMA buffers, `dma_prepare` in `sdmmc_sd.rs` | descriptors (`esp-hal`) | `dma_prepare`, `read_received_data` | DMA | |
| slot and pins, `lib.rs`, `gpio` parts | pin registers | `configure_pins*`, `init_slot` (not called) | | |
| voltage switch, bus width, sampling mode, block device, SDIO, `sdmmc_sd/io.rs` | | not called, or `todo!()` | | |

### What is hard here

* *The handler runs between any two steps of the thread, the hardware between any
  two accesses of the handler.* The handler reads the status, acknowledges it,
  reads and acknowledges the DMA status, sends the event: five windows.
* *Nothing ties an event to a command.* The queue, RINTSTS and the handler's
  locals may still hold an answer when the next command goes out, and
  `do_transaction` starts on whatever it finds ("TODO handle idle state events").
* *A timeout is decided in one place and acted on in another.* Between the timer of
  `wait_for_event` and `dma_stop` the handler runs, and may queue the very answer that
  the wait has just been given up for.
* *A `start_cmd` that gives up leaves its command in CMD.* The controller may take
  it later.
* *Two ends of a transfer* (data over, DMA done) come as different interrupts, in
  either order, in one event or two, mixed with errors.
* *`write()` of the register crate starts from the reset value.* Two writes of
  different fields of one register undo each other; `modify()` does not.
* *Recovery.* `dma_stop` and the FIFO reset write CTRL, which also holds the
  interrupt enable bit.
* *A reset of the processor that is none of the peripheral*, in the middle of `init`
  or of the handler.
* *A response register that keeps its value.* A command that got no answer returns
  `Ok` from `send_cmd`, and RESP0 is that of an earlier command; one with a garbled
  response does, too.
* *Two counters, a labelled block and two rounds* in `cmd_send_op_cond` and
  `init_ocr`, under a loop in `main` that calls `init` again and again.
* *Integer division with two roundings and a cast to `u8`* in `get_clk_divs`.

`PROJECT.json` lists these as hazards, at the lines where they bite, with the
properties for them.

## 2. Modules

| module | models | extends |
|---|---|---|
| `SdHost` | the registers the handler shares with the thread; `inter::handler`, one action per access | |
| `Transaction` | `do_transaction` and everything under it; the controller, the card and the DMA as external actions | `SdHost` |
| `CommandPromise` | abstract: the results a command may have, in one operator | |
| `CommandService` | abstract: one command at a time, carried out at most once, with a reply that is true but for a stale answer; `Transaction` implements it | `CommandPromise` |
| `SdHostProofs` | lemmas about the handler, for every thread it preempts | `SdHost`, `TLAPS` |
| `TransactionProofs` | theorem: types; lemmas: `InStep`, and that every step keeps it | `Transaction`, `SdHostProofs` |
| `ReplyProofs` | theorems: leftover answers, what a reply means, the refinement of `CommandService` | `TransactionProofs` |
| `EventChannel` | abstract: what the interrupt path promises, without registers | |
| `HostInit` | `Sdmmc::init`, then a thread that reads events; implements `EventChannel` | `SdHost` |
| `HostInitProofs` | theorems: types, `InitArms`, the safety half of `EventChannel` | `HostInit`, `SdHostProofs` |
| `ClockDivider` | `get_clk_divs`, `calc_freq` as operators | |
| `HwCmd` | the bit field `SdmmcHwCmd`, `make_hw_cmd`, `clk_update_cmd`, the words in CMD | |
| `ClockControl` | the clock and timeout registers, `set_card_clk`, `start_cmd` as far as the clock goes, on the words of `HwCmd` | `ClockDivider`, `HwCmd` |
| `ClockControlProofs` | theorems: types, the clock a command finds and keeps | `ClockControl`, `FunctionLemmas` |
| `CardInit` | `SdmmcCard::init`, `init_ocr`, `cmd_send_op_cond`, `main`'s retry loop; one command is one step, with the results of `CommandPromise` | `CommandPromise` |
| `CardInitProofs` | theorems: types, what `init` believes of the card | `CardInit`, `TLAPS` |
| `MCTransaction`, `MCClockControl` | instances for TLC, on the commands of `HwCmd` | |
| `MCFunctions` | one call of a pure function per state | `ClockDivider`, `HwCmd` |
| `FunctionLemmas` | lemmas: division and its rounding, dividers, fields and masks, the words of commands | `ClockDivider`, `HwCmd`, `TLAPS` |
| `FunctionProofs` | theorems: the properties of `MCFunctions`, for every frequency, word and command | `MCFunctions`, `FunctionLemmas` |

Three things hold the modules together. `Transaction` is checked to implement
`CommandService`, whose replies keep `Promise`, and `CardInit` knows of a command no
more than `Promise`: what is checked of the way up of a card stands on what is checked
of the transaction, not on a guess about it. `HostInit` ends in the state `Transaction`
begins in (`InitArms`), and both run the same handler, that of `SdHost`. The words of
`HwCmd` are what CMD holds in `ClockControl`, and `MCTransaction` asserts that its four
kinds of command are what flags and words say of every command in `DriverCmds`.

### How the models correspond to the code

*Registers.* A register whose bits matter one by one is the set of the names of
its 1 bits (`ctrl`, `rintsts`, `intmask`, `idsts`). `w.bits(x)` and `write(|w| ..)`
replace the set, `modify` changes the named bits. So `DmaStop(c)` does not
depend on `c`, and `InitDma` does.

*The handler* is six actions (`IsrEnter` to `IsrSdio`). `ThreadRuns` says that the
thread does not run while `isrPc # "idle"`: same core, higher priority. The
hardware actions have no such guard. A panic, in the handler or of an `unwrap`,
sets `panicked`, after which no thread and no handler step happens: the panic
handler is a loop.

*The transaction.* `Begin`, `Issue`, `Accepted`, `Prepare`, `ReceiveEvent`, one
`Process...` action per state of the event machine and `Finish` are the way
through `do_transaction`; `IssueRefused`, `IssueTimeout` and `AcceptTimeout` are early
returns. The timeout of the event loop is two actions: `EventTimeout`, the end of
`wait_for_event`, and `StopDma`, the rest of that arm of `handle_event`. Between them the
handler runs as anywhere else, so the queue need not be empty when `dma_stop` clears
`int_enable`, and nothing empties it afterwards. `clk` counts the three clock updates of
`set_card_clk`, which go through `start_cmd` as well. One `Process...` action is one
pass of the loop in `process_events` and does all that pass does: errors, `dma_stop`,
`fifo_reset`, next state, clearing of bits. `NextState` is the loop condition and what
follows the loop. `result` is the `Result`, `err` is `SdmmcCmd::err`: two different
ways to fail, and `Ok` with `err` set is common.

*Timeouts* are guards on what the hardware may do. The event timeout fires only
with an empty queue and no pending interrupt, unless `SlowAnswer` allows
the controller to be slower than `timeout_ms`. A wait of `start_cmd` times out when
the command is still in CMD; with `SlowAccept = FALSE` that needs a controller
that is busy.

*The hardware* (`Hw...`) is external: written from what the driver expects of it.
A command ends with `CMD_DONE`, after an error or without one; data with
`DATA_OVER`, except after a start bit error (the driver has a rule for
just that case); the DMA closes its last descriptor before or after `DATA_OVER`; a
card comes and goes, any number of times. The interrupt line is low while
`int_enable` is 0. `HostInit` has one more external action, `Reboot`: memory is lost,
registers are not.

*The refinement of `CommandService`.* `call` is `cmd` while a transaction is running,
`ran` is what the controller has done of it, `ret` and `failed` are the two kinds of
result. The abstract `hears` is what the driver still hears of the controller: `"all"`;
`"stale"` once the interrupt is off and a "command done" is in the queue; `"none"` once it is
off and there is none (`Hearing`). It changes only with a reply, so `Transaction` has a history
variable of that name with the value from before the call. A call that begins with `"stale"`
takes that "command done" for its own and says `Ok` of a command the controller may still be
at; the call after it hears nothing, and neither does any other until a new `Sdmmc::init`.

*The clock.* The CIU copies CLKDIV and CLKENA when it takes an update, and the host
divider acts at once. `pc` is a pair: the step, and which of the five updates it
belongs to. CMD is a word, the set of the numbers of its 1 bits: it is free when
`start_command` is 0 (`Taken`), and an update when `update_clk_reg` is 1.

*The card.* In `CardInit` a command is one step with the results that `Promise`
allows it: refused (`NotFound`), `Timeout` from `start_cmd` or the event loop, or
`Ok`. With `Ok` the card has given the right response, none (RESP0 keeps its value), or a
garbled one (RESP0 holds any word); in the last two cases `SdmmcCmd::err` is set, and
`send_cmd` drops it. `hears` is the variable of `CommandService`: after a timeout of the
event loop or a failed read no command ends any more, but for one that takes a stale "command
done" for its own. What becomes of a command in these cases is `Unheard`: the card has not got
it, or has and has answered, or has and will answer later. `set_clk_always_on`, which `cmd_send_op_cond`
calls at its beginning and its end, is `SetClkAlwaysOn` of `ClockControl` and not here: it has no
result, as it drops the error of its clock update. Its last call, with `false`, does not put
the clock back to what it was: it clears `lp_enable`, which `set_card_clk` has set (`sdmmc.rs:189`)
and sets again for the next command. Two history variables, `garbled` and `noisy`, remember whether RESP0 holds
a garbled response, and whether it has since CMD0.

*What is abstracted*: bytes of data, addresses and lengths, the polarity of the
card detect and write protect pins (`present`, `writeProtected`), time itself, logging.

## 3. Runs

Passing:

| run | bounds | shows |
|---|---|---|
| `transaction` | four kinds of command (no response; response; response with CRC; read), one command error, one data error with and one without "data over" after it, a card that goes and comes for ever, with at most one card detect interrupt on its way, at most one event queued between the end of a wait and `dma_stop`, queue of 32 | `StaleAnswersBounded`, `OkMeansFinished`, `ErrorsReported`, `FailedTransferStopsDma`, `TransactionReturns`, and the refinement `CommandServed` of `CommandService`; 1.6 million states |
| `host_init` | two interrupts of the default mask and one SDIO interrupt, four raises, queue of two, one reset of the processor at any step | `InitArms`, `InitEnds`, and that the event path implements `EventChannel` |
| `functions` | 157 kHz to 41 MHz, every kHz; every setter on words of whole fields; every opcode with every set of flags | `NeverTooFast`, `HostDivInRange`, `NotSlowerThanNeeded`, `SettersIndependent`, `CommandWord` |
| `clock_control` | one rounded and one exact divider; a command without a response, one with, and one with data | `CommandClocked`, `ClockSteadyUnderCommand` |
| `card_init` | one card of each kind, two errors, three iterations; any response may be missing or garbled, any read refused, any command unheard or ended by a stale answer | `OpCondReady`, `AddressingMatches`, `AttemptEnds`; 1.1 million states |

Why the bounds are enough. A command raises at most five answers
(an error and the end of the command, an error and the end of the data, the end of the DMA),
and the only unbounded source of events is card detect. `MaxCd` bounds only the
interrupts that are on their way (in RINTSTS, the handler or the queue) at one time: the card
itself goes and comes without end. `MaxLate` bounds the events that the handler queues between
the end of a wait and `dma_stop`, a window of a few instructions and a log line: one is
enough for a stale "command done". TLC finds the same with two (3.2 million states), and the theorems hold for
every value of both bounds. The run with five of them and a queue of four reaches the
overflow. Transactions follow each
other for ever, so a state that needs several of them is reached. The error bits
are chosen one per branch: `RTO` (the first test of `process_command_response`), `DCRC` (one of the
errors that end in `InvalidCRC`), `SBE` (the one that ends a transfer without
data over); the others differ in the value of `cmd.err` alone.
In `card_init` two errors and three iterations let the errors, the iterations
and both together run out; 3 and 300 in the code. The four raises of `host_init` are enough
for one before a reset of the processor, one between it and `ClearInterrupt`, and two that fill the
queue. The words of `functions` have every field all 0 or all 1 and differ in at most two
fields: where two masks overlap, the setter of one shows in the other. `OpCondReady` and
`AddressingMatches` speak of attempts without noise (`~noisy`): with it `init` believes
anything, which is a fact about `send_cmd` and not a limit of the model. The queue of `host_init` is 2 as the
refinement has to see it full, and 32 in the runs of `Transaction` that are not
about it.

Reporting what the repository says and the code does not keep (`PROJECT.json`
"findings", each with the line it quotes):

| run | property | counterexample |
|---|---|---|
| `late_answer` | `CompletedMeansFinished` | `start_cmd` gives up on a command; taken later, its answer ends the next transaction. (An event queued between a timeout and `dma_stop` does the same with a controller that takes commands at once; the run excludes slow answers, and with them event timeouts of a busy controller, to show this way) |
| `dma_unfinished` | `TransferComplete` | a read returns on data over, before the DMA is done |
| `no_recovery` | `RetryRecovers` | a data error makes `dma_stop` and the FIFO reset write CTRL; `int_enable` is gone, and every later command times out |
| `queue_overflow` | `IsrNeverPanics` | card detect interrupts nobody reads fill the queue; `try_send().unwrap()` panics. The run has a queue of 4, the code one of 32: the trace has one removal or insertion per place |
| `clock_settings` | `CommandSettings` | `ll_init_phase_delay` writes the register `ll_set_clk_div` has just written, `ll_set_responce_timeout` the one of `ll_set_data_timeout`: from the second command on both fields hold their reset values. The run has the one frequency the code uses, 20000 kHz |
| `v1_card` | `V1CardsGoOn` | no answer to CMD8 is not `Err(Timeout)` but `Ok` with an old RESP0 |
| `not_ready` | `InitializedMeansReady` | three failed CMD55 are forgotten by `init_ocr` and `init` succeeds |

`clock_settings` depends on the reset values of the two registers,
which are in the register crate and not here: `MCClockControl` takes 2 for the host divider. With
any other value than the divider asked for, the registers do not hold what the log
line says either.

As `rca` is 0 (`init_rca` is commented out) CMD7 selects no card and nothing answers
CMD17: `CardDoes` has no answer for it, and `init` says `Ok` all the same.

`CHECK_DEADLOCK FALSE` is said in `host_init`, where the hardware has a budget of
interrupts and the thread then waits for ever, or init has panicked; and in `functions`, which counts up to
its last frequency and stops. The runs for findings stop at the first violation.

### Fairness

`Transaction!Fairness` is `WF(Thread) /\ WF(IsrStep)`: the executor polls a task whose
queue or timer is ready, and the handler runs to its end and is entered while
the line is up. Timeouts are part of `Thread`: the timers of `embassy_time` fire. `AcceptSpec`, which the run `transaction` uses for `TransactionReturns`, adds
`WF(HwTake)`: an idle controller takes a command. There `SlowAccept = FALSE` has taken
away the timeout that `start_cmd` has for a controller that does not. Nothing else is
assumed of the hardware: it may stop at any point of a command. `TransactionReturns` has a
hypothesis about the user: the card is left alone in the end. It is needed, for `handle_event`
counts `timeout_ms` from the last event of any kind, and TLC finds a transaction that a
bouncing contact keeps from ending as soon as it is dropped.
`PromptSpec` adds that a controller ends what it began, and only
`RetryRecovers` is about it: the property fails even so. In `CardInit`, `WF(Driver)` stands on
`TransactionReturns` and is no stronger than that: `Spec` has it only if the card is left alone
in the end (`LeftAlone`), and `HandlerPanics` may end the program at any step. `AttemptEnds` has the same
hypothesis, and `"panicked"` among its ends. In `HostInit`, nothing is assumed of the hardware.

## 4. Proofs

Every invariant and every action property of the passing runs is proved of every
value of the constants, and so are both refinements as far as safety goes. Each
proof about a specification has the same form: an inductive invariant (`IInv`), that
`Init` has it, that each action keeps it, and that it implies the property. TLC has
checked each of these invariants on the bounds of the runs.

| module | theorem | states | assumes |
|---|---|---|---|
| `TransactionProofs` | `TypeCorrect` | `TypeOK` | |
| `ReplyProofs` | `StaleAnswersBoundedHolds` | `StaleAnswersBounded` | `SlowAccept = FALSE` |
| | `OkMeansFinishedHolds` | `OkMeansFinished` | `SlowAccept = FALSE` |
| | `ErrorsReportedHolds` | `ErrorsReported` | `SlowAccept = FALSE` |
| | `CommandServedHolds` | `CommandServed`: `Transaction` implements `CommandService` | `SlowAccept = FALSE` |
| | `FailedTransferStopsDmaHolds` | `FailedTransferStopsDma` | |
| `HostInitProofs` | `TypeCorrect`, `InitArmsHolds` | `TypeOK`, `InitArms` | |
| | `ChannelSafe` | `Channel!SafeSpec`, the safety half of `EventsReported` | |
| `FunctionProofs` | `NeverTooFastHolds`, `HostDivInRangeHolds`, `NotSlowerThanNeededHolds` | the three properties of `get_clk_divs`, for every frequency | 157 kHz or more |
| | `AnySetter`, `AnyCommandWord`, `AnyUpdateWord` | the properties of the words, for every word, value, command, length and slot | |
| | `SettersIndependentHolds`, `CommandWordHolds`, `UpdateWordHolds` | the same of the run's calls | |
| `ClockControlProofs` | `TypeCorrect`, `CommandClockedHolds`, `ClockSteadyUnderCommandHolds` | `TypeOK`, `CommandClocked`, `ClockSteadyUnderCommand` | |
| `CardInitProofs` | `TypeCorrect`, `OpCondReadyHolds`, `AddressingMatchesHolds` | `TypeOK`, `OpCondReady`, `AddressingMatches` | |

"Assumes" is what a theorem has besides the assumptions on the constants, which
are in the modules that declare them and which TLC evaluates. Of these, three are worth a word.
`None`, `NoCmd` and `ClkUpdate` stand for the absence of a command and for an
update, so `CmdsAssumption` keeps them out of `Cmds`. `LimitsAssumption` starts
the frequencies at 157 kHz: below, the card's divider does not fit its `u8` and the
theorem is false. `FreqsAssumption` of `ClockControl` ends them at 42,949,672 kHz: above, the
product in `set_data_timeout` does not fit a `u32` (`get_clk_divs` multiplies below 40 MHz only,
so `FunctionProofs` needs no such limit).

**Stale answers** (`SyncInv`, in `TransactionProofs`). `StaleAnswersBounded` is what one would like to say, but
it is not inductive: that no answer is
under way *before* a command says nothing of *during* one. The argument is this. Every
command has a last answer (`Final`): data over or a start bit error for one with
data, command done for one without. After it the controller is idle
(`ControllerInStep`), and nothing follows it through RINTSTS, the handler and the queue
(`FinalIsLast`). The event loop ends in one of two ways. Either its state has
become Idle, which takes the last answer, so the pipeline is clean; or it is given up, and then
`dma_stop` clears `int_enable` (`Muted`). The one other way for the loop of a data command to end
early, a command error, calls `dma_stop` too. So `SyncInv` is
`TypeOK /\ (Muted \/ InStep)`, `InStep` the conjunction of the named facts,
and `QuietOutside`, in it, gives the half of `StaleAnswersBounded` in which the interrupt is on.

The other half is not for free. `dma_stop` does not end what the handler has queued by then: the
handler may run between the timeout and `dma_stop`, and a data error in one event may leave later events
behind it. From `Muted` on the handler is not entered any more, so the queue only shrinks,
and what it may hold is what was true of it before: "command done" is the last thing said
of a command (`DoneIsLast`), so it is there once at most.

The hypothesis `SlowAccept = FALSE` is necessary: `late_answer` is the counterexample
without it. Note what the proof rests on: that the driver turns deaf after
a timeout, the very thing `no_recovery` reports. A repair of one has to look at the other: with the
interrupt on again after a timeout there would be no bound on stale answers at all.

**Replies** (`IInv` of `ReplyProofs`). That `cmd.err` tells of the errors that came needs to know which have come
and been looked at. The answers received so far (`seen`) split into those that a state has
dealt with, which are in `err`, and those in `evt` or `unhandled` (`Pending`) that none has
(`ErrorsInStep`). A state looks only at its own bits, so this needs that no bit of the
command arrives after "command done" took the loop out of `SendingCmd`
(`DoneIsLast` for the queue, for ever; `NothingAfterDone` for what is before it, while the interrupt
is on). `MutedCall` is a call with the interrupt off. There are three kinds. One that began with nothing
to hear (`hears = "none"`) has no "command done" in the queue, stays in `SendingCmd` and times out. One that
began with a stale "command done" (`"stale"`) may take it and say `Ok`, untruthfully, and leaves none behind. One that
began hearing everything has turned the interrupt off itself: in the loop, by a data or command error that is
in `err`; at the timeout, with which it ends. `CallInStep`
says that no earlier reply is left over and which word CMD holds. `CommandServed` then takes one
step at a time: `Begin` is `Call`, `HwTake` of the command and its end are
`Run`, the step that sets `result` is `Reply`, with `Truthful` and `Promise` from `IInv`,
`Finish` is `Accept`, everything else is a stutter. `FailedTransferStopsDma` has an
invariant of its own (`DmaInStep`) that involves neither the handler nor the controller, and
so holds for a slow controller as well.

**The event path** (`IInv` of `HostInit`). `Registers` says what CTRL and the masks hold at each step of
`init`, `Handler` that the handler runs only once it is bound and the interrupt is on. The
abstract `owed` is RINTSTS and what the handler has acknowledged but not sent; the queue maps to
the sequence of its reports. The only data there is a filter on a sequence, on which the proof needs three
facts: of the empty sequence, of a tail, and of an append.

**Dividers and words** (`FunctionLemmas`). The five branches of `get_clk_divs` come down to one lemma about a quotient rounded up
(`CeilingBounds`), applied once for each divider; no frequency is too large. Fields are sets of bit numbers: two
masks are disjoint because of their shifts and widths (`MasksDisjoint`), and a setter changes no more than its mask.

**The clock** (`IInv` of `ClockControl`). A command is clocked because the three updates before it were taken: at each of the
places a step may be (`pc`), what CLKDIV, CLKENA and the CIU's copy hold (`DividerSet`, `ClockOn`,
`UpdatesCopied`), and which kind of word CMD does (`WordKnown`). An update that was given up
on is still in CMD when the next transaction starts, and `Settled` says from which step on
that cannot be any more.

**The card** (`IInv` of `CardInit`). `CardKnown` follows the belief from the response to ACMD41 through RESP0
to `self.ocr`, as far as RESP0 is not overwritten. Where an answer did not come RESP0 is old, and
what saves `init` is that an R1 with the application bit, without which ACMD41 is not sent, does not look like
an OCR that is ready (`CleanResponse`, `AppSeen`).

Model-checked only:

* liveness: `TransactionReturns`, `InitEnds`, `AttemptEnds` and the fairness in
  `EventsReported` (every interrupt is reported in the end), as the prover has no rule for `ENABLED`;
* the properties of the runs for findings, which are false;
* that the constants of the small instances satisfy the assumptions.

The reply theorems say nothing of a controller that takes commands late: `CommandServed` and
`OkMeansFinished` are false there (as `late_answer` shows), and `ErrorsReported` would need
another invariant than one built on `InStep`.

## 5. Not modelled

* *Voltage switch* (opcode 11): its second stage ends in `todo!()` and no command has that opcode.
* *`SCF_WAIT_BUSY`*: no command sets it. *`InvalidSize`*: every command's length is a multiple of four.
* *Slot 0*: every `SdmmcCard` is on `Slot1`.
* *The size of `dma_rx_buf`*: `dma_prepare` does not look at it; its one caller reads one block.
* *The length of a response*: CMD58 is sent with `SCF_RSP_R2`, 136 bits, where the list of opcodes says `SD_READ_OCR: u8 = 58; /* R3 */`. `CardInit` lets the card answer it or not.
* *The direction bit*: `make_hw_cmd` sets `rw` for reads, and `start_cmd` takes it for a write when it looks at the write protect pin. `IssueRefused` has the path; what the controller does with `rw` is not here.
* *The end of a response that comes after its call has returned*: `Unheard` of `CardInit` leaves RESP0 as it was for such a response and does not write it later. Nobody would read it: a call returns before its response only once the interrupt is off and the queue holds no "command done", or by taking the last one, and no call says `Ok` from then on.
* *A command taken late* (`SlowAccept`, the run `late_answer`) ending the next one in `CardInit`: `CommandServed`, on which it stands, is about a controller that takes commands within 1 s.
* *CMD1*: `is_mmc` is true from the first line of `init`, and the branch for false is dead code. So the second round of `init_ocr`, logged as "trying MMC", sends ACMD41 again (the two branches of `cmd_send_op_cond` are swapped, besides).
* *`init_cid`, `init_rca`, `init_csd`*: commented out. *Block device*, *SDIO*, *bus width*, *sampling mode*: `todo!()` or not called.
* *Pins*: register writes without state of their own. *`build.rs`, tests*: linker arguments; one test, of 1 + 1.
* *What a peripheral does with a reset bit that is written back to 0* (`module_reset` writes three bits one by one).

## 6. Plan

Done: every component that keeps state, except what section 5 lists, and proofs of every
safety property of the passing runs.

Next:

1. `ErrorsReported` for a controller that takes commands late, or the trace that shows it false.
2. That `CardInit` needs no more of a command than `CommandService` gives: its `Transact` as a call
   and a reply of the service.

The liveness properties have to stay with TLC (section 4).
