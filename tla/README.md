# luks-hwid: TLA+ models, model checking and proofs

`luks-hwid` opens a LUKS2 volume from the identifiers of the machine it is in.
At boot the keyscript reads a token of the volume's header, rebuilds a secret
from the shares the present hardware can open, and writes it on stdout. When
too much hardware has changed, a USB rescue stick opens the volume and the
program re-enrolls: new keyslot, new token, old ones revoked. `luks-hwid
enroll` does the same by hand on the running system.

The hard part is not the cryptography but the volume: a sequence of separate
`cryptsetup` commands, each of which may fail or be the last before a power
cut, on a header the next boot has to live with. Around it stand the parts each
of those boots relies on: the same identifiers at every boot, shares that give
back the secret and nothing else, a `status` that tells what the next boot will
do.

## 1. Inventory

Paths are relative to `src/crates/`.

| component | state it keeps | operations | talks to |
|---|---|---|---|
| boot state machine, `luks-hwid/src/fsm.rs` | none (a pure table) | `step(St, Ev) -> (St, Action)` | driven by the keyscript |
| keyscript, `luks-hwid/src/keyscript.rs` | `Ctx` (stick, token read, the two keys), locals of `reenroll` | `run_inner` loop, `reenroll`, `emit` | fsm, luks, rescue, core |
| LUKS2 operations, `luks-hwid/src/luks.rs` | the header on disk or on the stick: keyslots, tokens | `find_hwid_token`, `test_key`, `add_keyslot`, `kill_slot`, `header_backup`, `token_import`, `token_remove` | the `cryptsetup` binary |
| rescue stick, `luks-hwid/src/rescue.rs` | a mount | `find_and_mount`, `remount_rw`, `keyfile`, `header` | `mount` |
| enroll command, `luks-hwid/src/enroll.rs` | old tokens and keyslots, new slot and metadata | `run` | libcryptsetup, core |
| status command, `luks-hwid/src/status.rs` | none, writes nothing | `run` | luks, `diagnose` |
| enrollment and recovery, `luks-hwid-core/src/derive.rs` | none | `enroll`, `recover`, `diagnose`, `Policy::default_for` | shamir, metadata |
| secret sharing, `luks-hwid-core/src/shamir.rs` | none | `gf_mul`, `gf_inv`, `split`, `reconstruct` | |
| token metadata, `luks-hwid-core/src/metadata.rs` | the fields of a token | `from_json_str`, `validate_envelope` | derive, luks |
| identifiers and collection, `identifier.rs`, `provider.rs` | a `BTreeSet` while collecting | `canonicalize`, `Identifier::new`, `collect_all` | the four providers |
| providers, `luks-hwid-core/src/providers/` | none | SMBIOS walk, CPUID, DMI files, USB directories | firmware, sysfs |
| volume secret, `luks-hwid-core/src/secret.rs` | 64 bytes | `generate`, `to_hex` | derive |
| `contrib/` (initramfs-tools hook, dracut module) | `/run/luks-hwid.key` | shell wrappers | the keyscript |
| main, kmsg, error | none | dispatch, log lines | |

What is hard to test here, and what the properties are for:

- **crashes and half-done work**: a re-enrollment is five writes in a row; each
  may fail cleanly, fail after it took effect, succeed over a bad write, or be
  the last one before the power goes. The next boot starts from what is left;
- **several boots**: stale tokens, orphan keyslots and a lowest-id search that
  may find the older fingerprint only matter two or three boots later;
- **hardware that comes and goes**: late USB enumeration, sources that cannot be read, a stick pulled while
  it authenticates commands, a header that lives on that stick;
- **limits**: keyslots, the room for tokens, the number of shares, `n - 1`;
- **two programs on one header**: a boot finds what a cut `enroll` left, and the
  reverse, with an administrator adding and killing keyslots in between;
- **data nobody wrote**: a firmware table with any lengths in it, a token whose
  fields changed on disk, two components with the same truncated hint.

What makes each component correct: the keyscript never leaves a token without
its keyslot, never touches the administrator's keyslots, never emits a key that
does not open the volume, always emits a rescue key it has verified, and
converges; the table leads every boot to an end; enroll replaces and keeps what
it writes recoverable; sharing returns the secret for any k shares and nothing
for fewer; recovery returns the secret of its token or an error; collection
returns the same list at every boot of the same machine, and ends.

## 2. Modules

| module | models | state |
|---|---|---|
| `BootFsm` | `fsm.rs`: the arms of `step` as a set of tuples, the catch-all arm | none |
| `Fingerprint` | truncation, default threshold, quorum of `recover` | none |
| `LuksVolume` | the persistent volume and the commands of `luks.rs` | `slots`, `tokens` |
| `Keyscript` | `keyscript.rs` over the three above, `rescue.rs`, and the environment | process, stick, hardware |
| `Enroll` | `enroll.rs` over the same volume, and the administrator | `run()`'s locals |
| `VolumeLifecycle` | `Keyscript` and `Enroll` on one volume, and `status` before each boot | both, and what status said |
| `FingerprintStore` | the abstract specification both implement | keys that open, keys published |
| `Recover` | `derive.rs` share by share, `status.rs`, tokens altered on the volume | token, `recover()`'s locals |
| `Gf256`, `FieldMul` | `gf_mul` and `gf_inv`, the first also turn by turn | the variables of its loop |
| `Shamir` | `split` and `reconstruct` | secret, coefficients, shares handed in |
| `Smbios` | `parse_type17_serials` | the locals of the walk |
| `Collect` | the four providers, `collect_all`, `canonicalize` and the truncation, on top of `Smbios` | the machine, the set |
| `MC...` | instances for TLC | |
| `VolumeProofs` | lemmas about the volume and the truncation that the proofs below share | |
| `Induction` | induction over numbers and recursive functions, for the proofs below | |
| `KeyscriptProofs` | theorems about `Keyscript`: its invariants, that it implements `FingerprintStore`, and what counts keyslots left behind and components lost | |
| `EnrollProofs` | theorems about `Enroll` | |
| `LifecycleProofs` | theorems about `VolumeLifecycle`, from those of the two programs (`EnrollProofs` instantiated as `P`) | |
| `RecoverProofs` | theorems about `Recover` | |
| `ShamirProofs` | theorems about `FieldMul` and `Shamir`, and the algebra they rest on | |
| `CollectProofs` | theorems about `Smbios` and `Collect` | |

`Keyscript` and `Enroll` see a token as its secret, the identifiers of its shares
and its threshold; `Recover` is where these three words are taken apart, `Shamir`
where a secret becomes shares, and `Collect` where identifiers come from. The
levels are checked each on its own: what the upper one assumes (the secret comes
back when k identifiers are there, the same machine shows the same identifiers)
is what `QuorumSuffices`, `QuorumRebuilds` and `StableFingerprint` say of the
lower ones.

**Volume.** `slots` gives each keyslot number the key that opens it, `tokens`
each token id its content. A key is `Passphrase`, `RescueKey`, a number (a
secret drawn at enrollment), `Garbage` (a keyslot written wrong, which no key
opens) or `NoKey` (free). Of a luks-hwid token the model keeps its keyslots, the
secret its shares rebuild, the identifiers they are sealed with and the
threshold; every other token (another type, a newer version, text that does not
parse) is `ForeignToken`. Each cryptsetup command is one atomic change:
cryptsetup commits its metadata as a whole, from two copies with checksums. A
secret nothing refers to any more may be drawn again, which keeps the state
finite and does not confuse two secrets that any key, keyslot or token still
holds.

**Keyscript.** `pc` says where the process is, `st` and `act` are the state of
`fsm.rs` and the last action it ordered. The variables of `Ctx` keep their
names; `usb` is `none`, `ro`, `rw` or `lost` (mounted, but pulled since).
Actions and code:

| action | code |
|---|---|
| `ResolveHeader` | `run_inner` before the loop: attached, or on the stick |
| `ReadToken`, `CollectAndRecover`, `SearchUsb`, `EmitFingerprintKey`, `EmitRescueKey`, `ExitWithError` | the arms of the loop, each feeding its event to `step` |
| `BackupHeader` | `reenroll` up to `header_backup` |
| `AddNewKeyslot` | collect, truncate, policy, `enroll`, `add_keyslot` |
| `VerifyKeyslot` / `RejectKeyslot` | `test_key` says yes / says no, with the best-effort `kill_slot` |
| `ImportNewToken`, `RemoveOldToken`, `RevokeOldKeyslot` | the three kinds of writes after it |
| `ReenrollEnds`, `ReenrollFails` | `Ok(())`, or an error that left no trace on the volume |
| `PowerOn`, `PowerOff`, `PowerCut`, `SwapHardware`, `InsertStick`, `PullStick` | the environment |

A writing command may succeed, take effect and still report an error (`ok` is
FALSE), or fail without effect (`ReenrollFails`); adding a keyslot may also
report success over a keyslot that does not open (`good` is FALSE). Reads may
miss tokens (`find_hwid_token` takes any failed export for an empty id), and
collection may miss any identifiers (USB devices not enumerated yet, a source that
cannot be read). Each such misfortune, a power cut and a
stick pulled during a boot count as one *fault*; what the state itself forces
(no free keyslot, no room, a stick that cannot be written, stick gone) is no fault and always
possible.

**Enroll.** `at` says where `run()` is; `old_tokens` and `old_hwid_slots` are
read before the prompt and consumed by the two loops, as in the code. Between
two runs the administrator adds and kills keyslots of his own and the hardware
changes. `Abandon` is every exit that leaves no trace of the call that failed.

**Lifecycle.** `VolumeLifecycle` extends `Keyscript` and instantiates `Enroll` over
the same `slots`, `tokens` and hardware. Boots and runs of enroll alternate; both
may be cut or fail anywhere, and what one leaves the other starts from. When a
boot begins, `status` is what the command would have said at that moment
(`StatusCode`), with the number of tokens of other machines (`Stale`) and whether
there is what a re-enrollment takes (`Room`).

**Store.** `FingerprintStore` knows only `openers`, the secrets that open a keyslot,
and `published`, those some token rebuilds. It adds a key before it publishes it and
retracts it before it revokes it. The mapping is `Openers` and `Published` of
`LuksVolume`. For boots alone `KeepsOne` is TRUE (the last fingerprint is never
retracted); with enroll it is FALSE, for enroll has a window without any.

**Recover.** A box is what an AEAD ciphertext is to this program: it opens with the
identifier, the KDF parameters and the associated data it was sealed with, and holds
a point of the polynomial of one secret. Tokens are enrolled, then up to two of their
fields are altered (`Alter`: ciphertext, abscissa, class, hint, type, version, cipher,
KDF parameters, threshold), or a share is replaced by the same share of the token
before. `recover()` looks at one share per step (`ReadShare`, `ReadShareBadKdf`).

**Sharing.** A byte is the set of its bits (`Gf256`): shift, exclusive or and reduction
are those of the code; `FieldMul` multiplies one turn at a time.
`Shamir` splits with chosen coefficients and hands shares to `reconstruct` in every
order, repeated, with abscissa zero or a byte short.

**Collection.** Texts are sequences of character codes. `Smbios` has one action per stage
of a structure (header, string, end of strings, serial), over tables that are
well-formed, cut anywhere, or any bytes. `Collect` runs the providers in turn on a
machine, at two boots; a machine has two spellings (case, spaces, masked CPUID
bits, order of structures) that must give one list. The order of a `BTreeSet` is written
as a rank: the place of an identifier is the number of smaller ones.

## 3. What is checked

Type invariants are `TypeOK`; the other properties, by run. All the runs of this
section pass.

`boot_safety` (about 503 000 distinct states): two faults, two swaps, three machines (one
with a single identifier), a stick with serial, with or without keyfile, header
attached or detached, with or without a keyslot for the keyfile. `boot_liveness`
(21 000): the same with one fault and one swap, under `FairSpec`.

| property | says |
|---|---|
| `TokensBacked` | every token names keyslots, and its secret opens each of them |
| `EmittedKeyOpens` | a key on stdout opens the volume |
| `LeakBound` | keyslots no administrator made: at most one per fault, plus the current fingerprint's, plus one while re-enrolling |
| `DriverOnScript` | no pair (state, event) without an arm, no `expect()` without its value |
| `RescueBoots` | a boot that verified the rescue key ends by writing it on stdout, however far the re-enrollment got and whatever stopped it; only a fault of stdout itself excuses |
| `ReplacedRevoked` | a completed re-enrollment has retired the fingerprint it found |
| `BackupKeysSurvive` | no step touches a keyslot of the administrator |
| `HeaderBackedUp` | no write without a header backup before it in the same boot |
| `FingerprintNeverLost` | a volume with a fingerprint is never without one |
| `KeepsStore` | every step is one of `FingerprintStore` |
| `BootTerminates` | every boot ends |
| `SelfHealing` | with stick (writable when it carries the header), keyfile and two identifiers there for good, the volume ends up with a fingerprint of its machine, and keeps one |

`enroll_safety` (274 000): enroll alone, again and again; two faults, any number
of swaps, every threshold, volumes fresh, crowded with other tokens, enrolled, and
left by an interrupted boot.

| property | says |
|---|---|
| `TokensBacked` | as above |
| `EnrollmentReplaces` | a completed enroll leaves one token, its own, with a quorum |
| `Recoverable` | every token written has 2 <= k <= number of its shares |
| `AdminKeyslotsKept` | no step touches a keyslot of the administrator |

`lifecycle` (953 000): boots, enroll, status and the administrator on one volume
with attached header; one fault anywhere, two swaps, a stick that shows no serial.

| property | says |
|---|---|
| `OneSwapBoots` | a missed quorum means two lost components |
| `StaleRevoked` | without faults the new fingerprint keyslot is the only one after a re-enrollment |
| `StatusForetellsBoot` | status 0: the boot emits the fingerprint's key; otherwise the rescue key if it is there and opens the volume, else nothing |
| `RescueBootHeals` | a boot that had to use the rescue key leaves a volume with status 0, or with one token of another machine fewer |
| `NeverTheOnlyWay` | enroll publishes a fingerprint only on a volume that a key of the administrator opens |
| `LifeKeepsStore` | boots and enroll together implement `FingerprintStore` |

`recovery` (416 000): six machines of one to four identifiers, two pairs of which
collide on their hint (one pair in the same class), thresholds below, within and above
what the shares allow, two enrollments, and one or two altered fields.

| property | says |
|---|---|
| `WrongOnlyIfForged` | a wrong secret comes only from a token whose threshold was lowered or that holds a share of an older token |
| `QuorumSuffices` | k unaltered shares whose components are there give the secret, whatever the other shares and the hints look like |
| `NoFalseAlarm` | status reports a lost quorum or no token only when recover() fails |
| `MarginHolds` | after any change that takes at most `margin` identifiers away the machine still boots, unless a hint collides |

`sharing` (885 000): all pairs of bytes for `gf_mul`, all bytes for `gf_inv`; secrets of
two bytes, (k, n) in {(2, 3), (3, 254)} and three that are refused, abscissae at both ends
of the field, up to three shares.

| property | says |
|---|---|
| `MulIsProduct`, `InverseIsInverse` | the loop of `gf_mul` computes the product of polynomials by its textbook definition, and `gf_inv` an inverse |
| `QuorumRebuilds` | k distinct shares or more give the secret, in any order |
| `NoFalseSecret` | k genuine shares never give anything but the secret or an error, repeated ones included |
| `NothingFromFewer` | with k = 2, one share excludes no secret: for each, what `split` may draw (`Draws`) holds coefficients, byte by byte, that make this share of it |

`collection` (525 000): every list of up to three SMBIOS structures out of eight, cut
anywhere; every table of up to six bytes out of six; four machines at two boots.

| property | says |
|---|---|
| `InBounds` | the walk never leaves the table |
| `ExactSerials` | it yields the serials the firmware wrote, in order; of a cut table, those it reached |
| `CollectEnds` | every collection ends |
| `StableFingerprint` | the same hardware gives the same list, however it is spelled and listed |
| `NoFalseKin` | two machines of one model share no identifier but their processor's |
| `UsbGoesFirst` | the truncation drops USB devices before anything else |

Bounds. Three machines suffice for a quorum met, missed by one and missed by
two; `MAX_SHARES = 4` (3 for enroll) lets the truncation drop a USB identifier.
Six keyslots are two of the administrator's plus one for the current fingerprint
plus one per fault plus one under way, so the limit is reached and not beyond
reach; enroll and lifecycle have four, which their runs fill. `MaxSecrets` is one
more than the keyslots: one secret per keyslot and one being drawn, so the draw
never blocks (`BootTerminates` would show it). Two faults let one interrupted
re-enrollment be interrupted again on the next boot; three were run once, with the same
result. `lifecycle` has one fault, but a boot and an enroll: one cut run of the one,
then whole runs of both. `Administers` never adds a key that is there already, and
hardware changes between processes only. `TokenRoom` is how many tokens the JSON area
holds: large in the passing runs, one in `token_room`. A token of 24 shares is about
6 kB of JSON and the area 12 kB by default, shared with the keyslots' entries, so room for
one full-size token only is a real case. `MaxChanges` bounds enrollments and
alterations together: two altered fields, or a second enrollment and one. In
`collection` the serial's number stands at offset 4 instead of 24, so that a
structure has two or three bytes; `MaxStructures = 3` lets a wrong position after one
structure be taken for the next one. Secrets of two bytes are enough for polynomials
that must differ from byte to byte; the bytes are processed independently.

Fairness. `FairSpec` of `Keyscript` asks that the process keeps running (`WF` of
`Program`: cryptsetup and mount are waited for, the wait for the stick has a deadline),
and that a machine that is off is switched on and one that is up is rebooted
some day. Nothing is asked of the stick or the hardware: `SelfHealing` has its assumptions
about them in its statement. Faults are finitely many in every behaviour (at
most `MaxFaults`), so what it says is that the program recovers once the
environment stops failing. `FairSpec` of `Collect` asks only that the one thread that
collects goes on; it reads files and waits for nothing.

Deadlock is checked except where the system stops: `sharing` and `collection` end when
their call or their second boot does. In `Keyscript` the stick can always be moved, so it
says nothing there: that no boot is stuck is what `BootTerminates` shows.

## 4. Where code and words differ

Five runs end in a counterexample to something the repository says:

- `stick_enrolled` (`OneSwapBoots`; README.md:78, keyscript.rs:233).
  Re-enrollment needs the stick plugged in, and the USB provider enrolls its
  serial. With the stick put away, one share is already missing: the next
  replaced component costs the quorum.
- `missed_export` (`ObsoleteRevoked`; keyscript.rs:205, luks.rs:79). A failed
  export is taken for an empty id. The boot re-enrolls as if for the first time
  and the obsolete fingerprint stays valid.
- `token_room` (`AtMostTwoFingerprints`; keyscript.rs:206, README.md:203). When
  two tokens do not fit, the import fails on every boot after the keyslot was
  added: one keyslot more each time, without any fault.
- `enroll_cut` (`NewTokenFirst`; enroll.rs:155). The comment promises the new
  token first; the code removes the old ones first, so a cut in between leaves
  no fingerprint.
- `shares_mixed` (`NeverWrong`; derive.rs:65-68, README.md:153). The associated data
  of a share bind it to a version, a class and a position but to no token: a share
  of the previous token, put at its place in the current one, opens, and the
  secret `recover` returns is neither token's. The keyslot does not open with it,
  so the boot asks for the passphrase; only the promise is wrong. `k` is covered by
  no tag either: `WrongOnlyIfForged` says that these two are the only ways.

The two orders of replacement fail differently: the boot path never loses its fingerprint but
needs room for two tokens, enroll needs room for one but has a window with none.

## 5. What is proved

Eight modules hold proofs. Their theorems hold for every value of the constants
that satisfies the assumptions: any number of keyslots, token ids, identifiers,
machines, faults and swaps, any length of a table or of a secret.

### Theorems

Boot path (`KeyscriptProofs`), attached or detached header:

| theorem | states |
|---|---|
| `Invariance` | `Spec => []IInv` |
| `TypeCorrect` | `Spec => []TypeOK` |
| `TokensAreBacked` | `Spec => []TokensBacked` |
| `EmittedKeysOpen` | `Spec => []EmittedKeyOpens` |
| `DriverKeepsToScript` | `Spec => []DriverOnScript` |
| `RescueKeyBoots` | `Spec => RescueBoots` |
| `ReplacedIsRevoked` | `Spec => []ReplacedRevoked` |
| `AdminKeyslotsSurvive` | `Spec => BackupKeysSurvive` |
| `WritesFollowBackup` | `Spec => HeaderBackedUp` |
| `FingerprintIsNeverLost` | `Spec => FingerprintNeverLost` |
| `BootKeepsStore` | `Spec => KeepsStore`, the refinement |
| `LeakInvariance` | `RoomForFaults /\ Spec => [](IInv /\ LeakInv /\ SiteInv)` |
| `LeaksAreBounded` | `RoomForFaults /\ Spec => []LeakBound` |
| `StaleIsRevoked` | `RoomForFaults /\ Spec => []StaleRevoked` |
| `OneSwapIsSurvived` | `Spec => [](token.ids \cap RescueIds = {} => OneSwapBoots)` |

Enroll (`EnrollProofs`):

| theorem | states |
|---|---|
| `Invariance`, `TypeCorrect` | `Spec => []IInv`, `Spec => []TypeOK` |
| `TokensAreBacked` | `Spec => []TokensBacked` |
| `AlwaysRecoverable` | `Spec => []Recoverable` |
| `OneFingerprintLeft` | a run that ends well leaves one token, its own, whose quorum this machine meets and whose secret opens |
| `EnrollmentIsReplacement` | `Spec => []EnrollmentReplaces`, where every initial volume has `NoOrphans` |
| `AdminKeyslotsAreKept` | `Spec => AdminKeyslotsKept` |

Both on one volume (`LifecycleProofs`):

| theorem | states |
|---|---|
| `LifeInvariance` | `LifeSpec => []LifeInv` |
| `BootsStaySound` | `TokensBacked`, `EmittedKeyOpens`, `DriverOnScript`, `ReplacedRevoked` and `RescueBoots`, now with enroll and the administrator in between |
| `NeverTheOnlyKey` | `LifeSpec => NeverTheOnlyWay` |
| `LifeKeepsTheStore` | `LifeSpec => LifeKeepsStore`, the refinement |
| `OneSwapIsSurvivedInLife` | as above, where `Thresholds \subseteq {Unset}` |
| `StaleIsRevokedInLife` | `RoomForFaults /\ LifeSpec => []StaleRevoked` |
| `StatusInvariance` | `LifeSpec => []StatusInv` |
| `StatusIsTrue` | `LifeSpec => [](~detached => StatusForetellsBoot)` |
| `RescueHeals` | `LifeSpec => [](~detached => RescueBootHeals)` |

One token (`RecoverProofs`), any number of shares, enrollments and altered fields:

| theorem | states |
|---|---|
| `Invariance`, `TypeCorrect` | `Spec => []IInv`, `Spec => []TypeOK` |
| `WrongSecretNeedsForgery` | `Spec => []WrongOnlyIfForged` |
| `QuorumIsEnough` | `Spec => []QuorumSuffices` |
| `StatusRaisesNoFalseAlarm` | `Spec => []NoFalseAlarm` |
| `MarginIsReal` | `Spec => []MarginHolds` |

Sharing (`ShamirProofs`), any length, threshold, coefficients and shares handed in:

| theorem | states |
|---|---|
| `MulInvHolds` | `MulSpec => []MulInv`, the loop of `gf_mul` |
| `MulIsProductAlways` | `MulSpec => []MulIsProduct` |
| `InverseIsInverseAlways` | `MulSpec => []InverseIsInverse` |
| `ShInvHolds` | `Spec => []ShInv` |
| `QuorumRebuildsAlways` | `Spec => []QuorumRebuilds` |
| `NoFalseSecretAlways` | `Spec => []NoFalseSecret` |
| `NothingFromFewerAlways` | `Spec => []NothingFromFewer` |
| `NothingFromAnyFewerAlways` | `Spec => []NothingFromAnyFewer`: fewer than k shares exclude no secret, for every k |
| `OneDrawForAnySecretAlways` | `Spec => []OneDrawForAnySecret`: of the draws of the coefficients exactly one turns a given secret into given k - 1 shares, so every secret is as likely as any other |

Collection (`CollectProofs`), any tables, structures, machines:

| theorem | states |
|---|---|
| `WalkStaysInside` | `Spec => []InBounds`: arbitrary bytes, cut anywhere |
| `SerialsAreExact` | `Spec => []ExactSerials`: tables of any number of structures, of any length, cut anywhere |
| `TruncationSparesBoards` | `Spec => []UsbGoesFirst` |
| `FingerprintIsStable` | `Spec => []StableFingerprint`, where a machine is `SeenAgain` at its second boot |
| `NoFalseKinship` | `Spec => []NoFalseKin`, where two machines of one model are `ToldApart` |

### What they assume

The constants (TLC evaluates every assumption on the instances of the runs):

- `Fingerprint`: the identifiers are a finite set of numbers, their order that of
  the `BTreeSet`, in which USB identifiers come last; a stick's serial is one of these.
- `LuksVolume`: `Passphrase`, `RescueKey`, `Garbage` and `NoKey` differ and are no
  secrets; the two values that stand for "no token" and "foreign token" are no metadata.
- `Keyscript`: the volume starts with keyslots of the administrator only and no
  luks-hwid token. `Enroll`: it starts typed, with tokens that are backed by their
  keyslots and recoverable, which is what the theorems say either program leaves.
- `Recover`: identifiers are finitely many, with a class and a hint each.
- `Smbios`, `Collect`: structures are what the SMBIOS standard can write (a string
  has no NUL and is not empty, a formatted area fits its length byte), machines
  have some, and no machine is the one without hardware that stands for a bare table.
- `Shamir`: lengths are numbers, and the coefficients and secrets are bytes. That k lies
  in 2..254 follows from what `split` refuses.

Some theorems need more, and say so in their statement:

- `NoOrphans` (`EnrollmentIsReplacement`): a re-enrollment cut right after
  `luksAddKey` leaves a keyslot no token names, and enroll can only destroy what
  tokens name. `OneFingerprintLeft` is what holds without it.
- `RoomForFaults` (`LeaksAreBounded`, `StaleIsRevoked`, `StaleIsRevokedInLife`): room and
  ids for a token per fault, the one in use and the one to come. Without room
  `LeakBound` fails, as the run `token_room` shows.
- `token.ids \cap RescueIds = {}` (both `OneSwapIsSurvived...`): the serial of
  the rescue stick is not among the shares. When it is, one component is enough to
  miss the quorum; that is the run `stick_enrolled`.
- `Thresholds \subseteq {Unset}` (`OneSwapIsSurvivedInLife`): nobody asked for a
  threshold. `--threshold n` allows no loss at all.
- `~detached` (`StatusIsTrue`, `RescueHeals`): the `status` of the model reads the header
  of the device; with a header on a stick it depends on a stick that is there when
  it is asked and may be gone at the boot.
- `SeenAgain` (`FingerprintIsStable`): what of a machine is no junk is there again at the
  other boot: a text with the same words up to case, a processor with the same
  unmasked CPUID bits, a device with the same serial. A machine that shows other hardware
  must give another list. TLC finds the hypothesis true of the run's machines, one of
  which is there in two spellings.
- `ToldApart` (`NoFalseKinship`): no part of one machine carries a serial that is one of the
  other's in another spelling, junk apart, and all vendor and product numbers have one
  width and no spaces; the kernel writes them as four hex digits. Without the width two
  different `vid:pid:serial` could be spelled the same. TLC finds the hypothesis true of the
  run's machines, with a width of two.

### The boot path

None of its properties is inductive alone. That no keyslot of the administrator
is killed depends on what tokens name; that tokens name the right keyslots
depends on where the process is when it kills one; that depends on the pairs
(state, action) `step` produces. `IInv` puts these together:

- `ScriptInv`: at each point of the driver, the state of `fsm.rs`, the action
  and what has been stored; all later conjuncts rest on it;
- `TokensBacked` with `DistinctSecrets`: two tokens never share a secret, so
  never a keyslot, and killing the keyslots of one does not hurt the other;
- `TokenCurrent`: until it is removed, the token read is still in the volume;
- `NewKeyslotInv`, `NewTokenInv`: the keyslot under way belongs to nobody else,
  opens with the new secret once verified, and its token is in place before
  the old one goes;
- `RevokeInv`: what remains to be killed is neither named by a token nor the
  administrator's;
- `KeysInv`: keys at hand open the volume and lead to the action that emits them;
- `ReplacedInv`: what a replacement has retired and has yet to kill;
- `RescueInv`: once the rescue key is verified, the process is in `reenroll` or about to emit
  it; no other step can then end the boot (`RescueEnds`).

`TypeStep`, `ScriptStep`, `ReplacedStep` and `RescueStep` prove one conjunct for
all actions; `QuietStep` proves the volume's conjuncts for the actions that do
not write it, and `AddStep`, `RejectStep`, `ImportStep`, `RemoveStep` and
`RevokeStep` for those that do.

The refinement needs little more. `PublishedOpens` turns `TokensBacked` into
`Published \subseteq Openers`. A keyslot that gets another content (`SetSlotStores`) adds
or revokes one key, and what it revokes is not published, because `TokensBacked` holds
after the step as well. An import publishes a secret that opened (`NewKeyslotInv`); a
removal retracts one of several, because `RemoveStep` leaves a token.

Counting is a second invariant on top of `IInv`. `LeakInv` says at each
point of `reenroll` how many keyslots of fingerprints there may be: one per fault so far,
plus the token's in use, plus the one under way; a writing step is then either the expected
one or spends a fault. `SiteInv` holds the facts that exclude a faultless way out: the keyfile
is the rescue key, the header can be written or the stick was pulled, a token id is free, what is
killed is not the new keyslot. A stick that cannot be written is no fault, but stops a
re-enrollment before its first write. `QuorumInv` carries
the default threshold from the enrollment to the boot that misses the quorum,
where `TwoGone` counts two identifiers gone.

### Enroll

`run()` reads the tokens and their keyslots when it loads the header and acts on
them after a prompt and a long computation. `NotedInv` says that what it noted is
still true: it is the only writer meanwhile. From that it follows that the keyslots to be
destroyed are neither the administrator's nor named by what is left. `NewKeyslotInv`
is about the keyslot and the metadata under way, `NewTokenInv` about the one token
after the import. `OrphanInv` adds, for faultless behaviours, that every keyslot
of a fingerprint is named, noted, or the new one.

### Both on one volume

`LifeInv` is the conjunction of the two programs' invariants, `CommandInv` and
`PendingInv`. While one program runs the other is off, and what its invariant then
says is about the volume alone; each step of one is shown to preserve that part of
the other's (`EnrollLife`, `BootLife`). Two facts cross the border:
enroll's new secret is on no token (the boot path needs distinct secrets), and
what a boot is about to publish can be recovered from (enroll's `Recoverable`). `LifeLeak`
counts as above but only while nothing has failed, for enroll under a fault may
leave more.

`StatusInv` follows a boot that nothing disturbs from the moment `status` spoke:
`ForetellInv` says at each point which arm of the script the announced code has led to,
`HealInv` that with room for a re-enrollment each of its guards is open and at the end
either the volume's current token is this machine's or one token of another
machine is gone.

### Recovery

`SealedInv` (a share nobody altered is the one that was sealed) and `PlaceInv` (a box
that opens is in its own place, also one of an older token) say what the
alterations can do. `LoopInv` is the loop of `recover()`: what is opened are
shares before `pos`, in order, each opened by an identifier at hand, and every
unaltered share passed whose identifier is there is among them. `ResultInv` is then a
count at the end of the loop: k opened shares of one secret give it, and a different secret
needs a lowered k or two secrets among the opened. `ToldInv` keeps what status said;
`MarginCounts` shows that of the shares it counted no more are lost than identifiers were.

### Sharing

Products are proved from bits. An operation that respects exclusive or in an argument is
known once it is known on the eight bits (`SumOfBits`, `AdditiveSum`, `SameOnBits`), and
`gf_mul` is such a sum (`MulIsSum`); two bits multiply to the sum of their positions. That gives
the laws of a field (`MulCommutes`, `MulAssociates`, `MulUnits`), with an inverse
because squaring eight times is the identity (`EightSquares`, `Inverses`), which is the
exponent `gf_inv` computes. The textbook product is additive as well, so it is enough to compare
it on pairs of bits (`ProductIsMul`), and `MulTurn` keeps both sides together in the loop.

Over that field a share is the value of a polynomial (`PolyIsHorner`, `ShareByteOf`; the
code evaluates by Horner's scheme). A polynomial that is not zero has no more roots than its
degree (`PolyDivide`, `PolyRoots`), so two that agree at k places are one (`PolysAgree`), and
the one that `reconstruct` writes down passes through the shares it is given (`WeightIs`,
`Lagrange`, `Rebuilds`). Conversely Lagrange's polynomial through fewer shares and any secret
at zero is a draw that gives these shares (`AnySecretFits`, `ApartFits`), and through k - 1 shares
the only one (`OneDraw`).

### Collection

The walk reads a table that recursive functions encode. Such a function exists
and satisfies its equation (`Recursion` of `Induction`, from the well-foundedness of <), so the
offsets of structures and strings are known (`EncodedShape`, `BytesOf`), for any
length. `BoundsInv` puts the two indices inside the table whatever its bytes
are; `WalkInv` says where they stand in the structure being read and that what is collected is
the serials of the structures before it. `TextOrder` and `IdOrder` show that the
identifiers are strictly and totally ordered, `InOrderShape` that the
list has each once, in order: the truncation therefore keeps the least, and equal sets
give equal lists. `SourceInv` says what the set holds after each
provider, `FirstInv` what is left of the first boot. `SpellingForgiven` is about
`canonicalize`: texts whose characters other than spaces correspond, in order and in the
same words, become the same value (`KeptFirst`, `KeptNext`, `KeptLast` follow its loop from
one such character to the next). `NothingElseForgiven` is the converse: the value keeps the
words (`CanonicalWords`, `WordsBack`), so texts that become the same are spellings of one;
`UsbValueKept` adds that `vid:pid:serial` splits in one way only. The two say exactly what
`canonicalize` forgives, and `NoFalseKinship` follows from the second.

### Only model-checked

Every invariant and action property of the passing runs is a theorem above. Left to TLC:

- Liveness (`BootTerminates`, `SelfHealing`, `CollectEnds`): fairness and ENABLED are
  beyond this prover.
- The five disagreements of section 4, which are counterexamples.

Induction theorems that take an operator as a parameter cannot be used with this prover.
Where a proof needs induction, it goes by a least counterexample or a set of numbers
(`NatMin`, `NatSetInduction` of `Induction`).

## 6. Plan

1. (done) `BootFsm`, `Fingerprint`, `LuksVolume`, `Keyscript` with its runs and
   proofs; `Enroll` with its runs.
2. (done) `FingerprintStore` and the refinements, `VolumeLifecycle`, `Recover`,
   `Gf256`, `FieldMul`, `Shamir`, `Smbios`, `Collect`.
3. (done) `KeyscriptProofs`, `EnrollProofs`, `LifecycleProofs`: every safety property of
   the two programs, alone and on one volume.
4. (done) `RecoverProofs`, for any number of shares; `CollectProofs`, for any table and
   any two machines; `ShamirProofs`, from the bits of a byte to the secrecy of k - 1 shares.
5. Left: what `status` says of a detached header.

## 7. Not modelled

Log lines, error wording, argument parsing, file paths, the text of JSON and of
command lines, the Argon2 computation and its costs, mlock and zeroizing, file
descriptors and processes of `cryptsetup`, reading files of sysfs.

- An administrator who kills a fingerprint keyslot under its token: the program
  has no say in it, and `TokensBacked` would be his to break.
- Concurrent administration while enroll waits for the passphrase: libcryptsetup
  refuses to write a header that changed since it was loaded.
- Enroll on a detached header: it writes to whatever file it is given, as with
  the attached one.
- Backup file names (and a clock that repeats) are covered as a failing backup;
  mount points and a second process in the same initramfs as a stick that does
  not mount.
- The shell scripts of `contrib/`: the initramfs-tools hook copies files at build
  time; the dracut hook takes a non-empty file for a key, which matters only if
  `emit` fails after part of its output.
- Characters beyond the ones the instances use (Unicode spaces and case) in
  `canonicalize`; bytes of an SMBIOS string that are not valid UTF-8, which
  `String::from_utf8_lossy` merges into one replacement character.
- Hints in `StatusCode` of `VolumeLifecycle`: `status` and the boot agree on identifiers there.
  Two identifiers with one hint are a matter of `Recover` (`NoFalseAlarm`, `MarginHolds`).
