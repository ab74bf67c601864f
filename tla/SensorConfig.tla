----------------------------- MODULE SensorConfig -----------------------------
(***************************************************************************)
(* The configuration of the OV3660 over its control bus: Ov3660 of         *)
(* crates/ov3660/src/lib.rs with the tables of settings.rs.                *)
(*                                                                         *)
(* Every setting is a series of one-byte writes, any of which may fail on  *)
(* the bus, and the driver keeps a copy of the mode that later settings    *)
(* are computed from.  An operation is the program of the functions it     *)
(* calls, each with its writes and with what the driver keeps once it      *)
(* returned Ok.  Registers carry their addresses and values; those that    *)
(* only the default table writes, with constants, are left out.            *)
(***************************************************************************)
EXTENDS Integers, Sequences, Functions

CONSTANTS
    Sizes,         \* the frame sizes that are asked for
    Qualities, BrightnessLevels, SaturationLevels,
    XclkHz,        \* Ov3660::xclk_hz
    MaxFailures    \* bound: bus errors and restarts

FrameSizes == {"Qvga", "Vga", "Svga", "Hd", "FullHd", "Uxga", "Qxga"}

ASSUME SettingAssumption ==
    /\ Sizes \subseteq FrameSizes
    /\ Qualities \subseteq 0..63
    /\ BrightnessLevels \subseteq -3..3 /\ SaturationLevels \subseteq -4..4
    /\ XclkHz \in Nat /\ MaxFailures \in Nat

\* The registers of each setting, in the order they are written.
WindowRegisters == [i \in 1..20 |-> \h37ff + i]
PllRegisters == <<\h303a, \h303b, \h303c, \h303d, \h3824, \h460c>>
OptionRegisters == <<\h3820, \h3821, \h4514, \h4520, \h3814, \h3815>>
SaturationRegisters == [i \in 1..11 |-> \h5380 + i]
ExposureRegisters == <<\h3a0f, \h3a10, \h3a1b, \h3a1e, \h3a11, \h3a1f>>
FormatRegisters == <<\h501f, \h4300, \h3002, \h3006, \h471c>>

\* "shared" is what the default table leaves in the two registers of which a
\* setting changes one bit.
RegistersOf ==
    [mode |-> Range(WindowRegisters) \cup {\h5001} \cup Range(PllRegisters),
     options |-> Range(OptionRegisters), quality |-> {\h4407},
     brightness |-> {\h5587, \h5588}, saturation |-> Range(SaturationRegisters),
     fixed |-> Range(ExposureRegisters) \cup Range(FormatRegisters),
     shared |-> {}]
Settings == {"mode", "options", "quality", "brightness", "saturation", "fixed", "shared"}
Registers == UNION {RegistersOf[p] : p \in Settings}
Unknown == 256  \* added to a value: the bits that are not known

\* The fields of Ov3660; history: the other settings last made.
Configs == [frame_size : FrameSizes, binning : BOOLEAN, vertical_flip : BOOLEAN,
            quality : 0..63, brightness : -3..3, saturation : -4..4]

VARIABLES
    regs,      \* the registers of the sensor
    held,      \* what the driver keeps
    program,   \* the functions the running operation still has to do
    damaged,   \* history: the settings a write reached and no success completed
    failures

sensorVars == <<regs, held, program, damaged, failures>>
-----------------------------------------------------------------------------
(* The steps of a program *)

Write(r, v) == [do |-> "write", reg |-> r, value |-> v]
SetRegisterBits(r, mask, enabled) ==
    [do |-> "bits", reg |-> r, mask |-> mask, bits |-> IF enabled THEN mask ELSE 0]
Writes(registers, values) ==
    [i \in DOMAIN registers |-> Write(registers[i], values[i])]

\* A function that makes some settings, and what the driver then keeps.
Function(steps, makes, config) ==
    [steps |-> steps, makes |-> makes, config |-> config]

Dimensions ==
    [Qvga |-> <<320, 240>>, Vga |-> <<640, 480>>, Svga |-> <<800, 600>>,
     Hd |-> <<1280, 720>>, FullHd |-> <<1920, 1080>>, Uxga |-> <<1600, 1200>>,
     Qxga |-> <<2048, 1536>>]

Ratio4x3 == [max |-> <<2048, 1536>>, start |-> <<0, 0>>,
             end |-> <<2079, 1547>>, total |-> <<2300, 1564>>]
Ratio16x9 == [max |-> <<1920, 1080>>, start |-> <<64, 242>>,
              end |-> <<2015, 1333>>, total |-> <<2172, 1322>>]
GeometryOf(size) == IF size \in {"Hd", "FullHd"} THEN Ratio16x9 ELSE Ratio4x3

Half(max) == <<max[1] \div 2, max[2] \div 2>>
Binned(size) ==
    LET d == Dimensions[size]  half == Half(GeometryOf(size).max)
    IN  d[1] <= half[1] /\ d[2] <= half[2]
Scaled(size) ==
    LET max == GeometryOf(size).max IN Dimensions[size] \notin {max, Half(max)}

\* Start, end, output size, total size and offset, as set_frame_size has them.
Window(size) ==
    LET g == GeometryOf(size)  d == Dimensions[size]
    IN  <<g.start[1], g.start[2], g.end[1], g.end[2], d[1], d[2], g.total[1],
          IF Binned(size) THEN (g.total[2] \div 2) + 1 ELSE g.total[2],
          IF Binned(size) THEN 8 ELSE 16, IF Binned(size) THEN 2 ELSE 6>>

\* write_xy and write_u16: the high byte of each value, then the low one.
SetWindow(size) ==
    Writes(WindowRegisters,
           [i \in 1..20 |-> IF i % 2 = 1 THEN Window(size)[(i + 1) \div 2] \div 256
                            ELSE Window(size)[i \div 2] % 256])

SetScaling(size) == SetRegisterBits(\h5001, \h20, Scaled(size))

SetImageOptions(binning, flip) ==
    LET reg20 == IF binning THEN \h01 ELSE \h40
        increment == IF binning THEN \h31 ELSE \h11
    IN  Writes(OptionRegisters,
               << IF flip THEN reg20 + \h06 ELSE reg20,
                  IF binning THEN \h21 ELSE \h20,
                  IF ~binning THEN \h88 ELSE IF flip THEN \hbb ELSE \haa,
                  IF binning THEN \h0b ELSE \hb0, increment, increment >>)

SetJpegPll(size) ==
    LET slow == size = "Qxga" \/ XclkHz = 16000000
    IN  Writes(PllRegisters, << 0, IF slow THEN 24 ELSE 30, \h11, \h30,
                                IF slow THEN 8 ELSE 10, \h22 >>)

\* The setters, for a driver that keeps h.
SetFrameSize(h, size) ==
    Function(SetWindow(size) \o <<SetScaling(size)>>
               \o SetImageOptions(Binned(size), h.vertical_flip) \o SetJpegPll(size),
             {"mode", "options"},
             [h EXCEPT !.frame_size = size, !.binning = Binned(size)])

SetQuality(h, q) ==
    Function(<<Write(\h4407, q)>>, {"quality"}, [h EXCEPT !.quality = q])

SetVerticalFlip(h, enabled) ==
    Function(SetImageOptions(h.binning, enabled), {"options"},
             [h EXCEPT !.vertical_flip = enabled])

BrightnessWrites(level) ==
    <<Write(\h5587, 16 * (IF level < 0 THEN -level ELSE level)),
      SetRegisterBits(\h5588, \h08, level < 0)>>
SetBrightness(h, level) ==
    Function(BrightnessWrites(level), {"brightness"}, [h EXCEPT !.brightness = level])

\* A row of SATURATION_LEVELS is told by its index.
SaturationRow(level) == Writes(SaturationRegisters, [i \in 1..11 |-> level + 4])
SetSaturation(h, level) ==
    Function(SaturationRow(level), {"saturation"}, [h EXCEPT !.saturation = level])

\* The rows of DEFAULT_REGISTERS that another write depends on; the default
\* saturation is the row of level zero.
DefaultRegisters(h) ==
    Function(Writes(<<\h4520, \h471c, \h501f>>, <<\h0b, \hd0, 0>>)
               \o SaturationRow(0)
               \o Writes(ExposureRegisters, <<\h30, \h28, \h30, \h28, \h60, \h14>>)
               \o Writes(<<\h5588, \h5001>>, <<0, \h83>>),
             {"saturation", "shared"}, [h EXCEPT !.saturation = 0])
AutoExposureLevelZero ==
    Writes(ExposureRegisters, <<\h3b, \h32, \h3b, \h32, \h76, \h19>>)
JpegFormat == Writes(FormatRegisters, <<0, \h30, 0, \hff, \h50>>)

\* The identity, the reset that the default table repeats, and the settings.
Initialization(h, size, quality) ==
    LET defaults == DefaultRegisters(h)
        sized == SetFrameSize(defaults.config, size)
    IN  << Function(<<[do |-> "check"], [do |-> "reset"], [do |-> "reset"]>>, {}, h),
           defaults,
           Function(AutoExposureLevelZero \o JpegFormat, {"fixed"}, defaults.config),
           sized, SetQuality(sized.config, quality) >>
-----------------------------------------------------------------------------
New == [frame_size |-> "Vga", binning |-> FALSE, vertical_flip |-> FALSE,
        quality |-> 0, brightness |-> 0, saturation |-> 0]

SensorInit ==
    /\ regs = [r \in Registers |-> Unknown]
    /\ held = New
    /\ program = <<>>
    /\ damaged = Settings
    /\ failures = 0

Call(functions) ==
    /\ program = <<>>
    /\ program' = functions
    /\ UNCHANGED <<regs, held, damaged, failures>>

Initialize == \E s \in Sizes, q \in Qualities : Call(Initialization(held, s, q))
ChangeFrameSize == \E s \in Sizes : Call(<<SetFrameSize(held, s)>>)
ChangeQuality == \E q \in Qualities : Call(<<SetQuality(held, q)>>)
ChangeVerticalFlip == \E f \in BOOLEAN : Call(<<SetVerticalFlip(held, f)>>)
ChangeBrightness == \E l \in BrightnessLevels : Call(<<SetBrightness(held, l)>>)
ChangeSaturation == \E l \in SaturationLevels : Call(<<SetSaturation(held, l)>>)

\* The register of a step, before and after one write on the bus.
WithBit(v, mask, bits) == v - mask * ((v \div mask) % 2) + bits
Result(step, v) ==
    IF step.do = "write" THEN step.value ELSE WithBit(v, step.mask, step.bits)

Writing == program # <<>> /\ program[1].steps # <<>>
CurrentStep == Head(program[1].steps)

\* What the bus does with the current step.
Apply ==
    \/ /\ CurrentStep.do = "check"
       /\ UNCHANGED <<regs, damaged>>
    \/ /\ CurrentStep.do = "reset"
       /\ regs' = [r \in Registers |-> Unknown]
       /\ damaged' = Settings
    \/ /\ CurrentStep.do \in {"write", "bits"}
       /\ regs' = [regs EXCEPT ![CurrentStep.reg] = Result(CurrentStep, @)]
       /\ damaged' = damaged \cup {p \in Settings : CurrentStep.reg \in RegistersOf[p]}

Step ==
    /\ Writing
    /\ program' = [program EXCEPT ![1].steps = Tail(@)]
    /\ Apply
    /\ UNCHANGED <<held, failures>>

ReturnOk ==
    /\ program # <<>> /\ program[1].steps = <<>>
    /\ program' = Tail(program)
    /\ held' = program[1].config
    /\ damaged' = damaged \ program[1].makes
    /\ UNCHANGED <<regs, failures>>

\* Mutant: the fields are assigned before the writes, and an error leaves them so.
FailAfterAssigning ==
    /\ Writing
    /\ failures < MaxFailures
    /\ failures' = failures + 1
    /\ program' = <<>>
    /\ Apply \/ UNCHANGED <<regs, damaged>>
    /\ held' = program[1].config

\* The bus reports an error, or another device answers; the sensor may have
\* taken the write all the same.
Fail ==
    /\ Writing
    /\ failures < MaxFailures
    /\ failures' = failures + 1
    /\ program' = <<>>
    /\ Apply \/ UNCHANGED <<regs, damaged>>
    /\ UNCHANGED held

\* The microcontroller starts over; the sensor keeps its power.
Restart ==
    /\ failures < MaxFailures
    /\ failures' = failures + 1
    /\ program' = <<>>
    /\ held' = New
    /\ damaged' = Settings
    /\ UNCHANGED regs

SensorNext ==
    \/ Initialize \/ ChangeFrameSize \/ ChangeQuality \/ ChangeVerticalFlip
    \/ ChangeBrightness \/ ChangeSaturation
    \/ Step \/ ReturnOk \/ Fail \/ Restart

SensorSpec == SensorInit /\ [][SensorNext]_sensorVars
-----------------------------------------------------------------------------
(* Properties *)

SensorTypeOK ==
    /\ regs \in [Registers -> Nat]
    /\ held \in Configs
    /\ \A i \in 1..Len(program) :
          /\ program[i].makes \subseteq Settings
          /\ program[i].config \in Configs
    /\ damaged \subseteq Settings
    /\ failures \in 0..MaxFailures

\* What the register holds apart from one bit.
Besides(r, mask, v) == [do |-> "besides", reg |-> r, mask |-> mask, value |-> v]

\* A register with the value v is as e wants it.
Accepts(e, v) ==
    /\ e.do = "write" => v = e.value
    /\ e.do = "bits" => e.mask * ((v \div e.mask) % 2) = e.bits
    /\ e.do = "besides" => WithBit(v, e.mask, 0) = e.value

\* What a setting makes of the registers of a sensor.
Setting(p, c) ==
    CASE p = "mode" -> Range(SetWindow(c.frame_size)) \cup {SetScaling(c.frame_size)}
                         \cup Range(SetJpegPll(c.frame_size))
      [] p = "options" -> Range(SetImageOptions(c.binning, c.vertical_flip))
      [] p = "quality" -> {Write(\h4407, c.quality)}
      [] p = "brightness" -> Range(BrightnessWrites(c.brightness))
      [] p = "saturation" -> Range(SaturationRow(c.saturation))
      [] p = "fixed" -> Range(AutoExposureLevelZero) \cup Range(JpegFormat)
      [] p = "shared" -> {Besides(\h5001, \h20, \h83), Besides(\h5588, \h08, 0)}

\* Whatever failed or restarted before: the sensor is, in every setting that no
\* failed operation reached since the last success, as the settings the driver
\* believes in make any sensor, down to the last register.  The binning from
\* which a flip computes the image options then fits the frame size, and the
\* single bits that are set have left the other bits of their registers alone
\* (set_frame_size, set_vertical_flip, set_register_bits, initialize).
AsConfigured ==
    /\ \A p \in Settings \ damaged : \A e \in Setting(p, held) : Accepts(e, regs[e.reg])
    /\ "mode" \notin damaged => held.binning = Binned(held.frame_size)
=============================================================================
