# mbedtls-clu in TLA+

`mbedtls-clu` is a set of command-line utilities on top of Mbed TLS that stand
in for parts of `openssl`. This directory models it in TLA+, checks the models
with TLC and proves theorems about them with TLAPS. Source paths below are
relative to `src/src/`.

## 1. The system

| part | state | operations | what makes it correct |
|---|---|---|---|
| `ca.c` | on disk: the database `index.txt` and `index.txt.old`, its attributes `index.txt.attr` and `.old`, the serial file and `.old`, the CRL and the certificates; in memory: the database entries, the serial, the certificate being built | sign, `-revoke`, `-gencrl` | every acknowledged operation is recorded; a serial is used once; a revocation is not lost; a CRL lists what was revoked and nothing else; a fault leaves a complete backup |
| `x509write_crl.c` | the list of revoked entries of one CRL | add an entry, encode, sign | an entry has the serial and date it was given |
| `mbedtlsclu_common.c` | the parameters of one run | parse a configuration or extension file, compare names, write a certificate | a field holds the last value of the section that was asked for, as `docs/config-files.md` says |
| `x509_create.c` | nothing | parse a subject into attributes | the fields and values that were written |
| `req.c` | the request and certificate being built; key, request and certificate files | options, configuration, `-newkey`, request, `-x509` | exit code 0 means a whole file with the subject, key, digest and extensions asked for |
| `genpkey.c` | the key file | options, generate, write | exit code 0 means a new key of the kind asked for |
| `enc.c` | input, key, IV, cipher context, output | derive, encrypt, decrypt, base64 | decryption inverts encryption; an incomplete or failed decryption shows nothing but a beginning of the text |
| `dhparam.c` | the parameter file | read or generate, check, write | what is written was asked for and passed the check |
| `crl.c` | the list and certificate files it reads | read, verify, write | only what was verified is written |
| `x509.c`, `rand.c` | nothing | read a certificate and print it; print random bytes | what is printed |
| `mbedtls-clu.c` | the log level | dispatch on the first argument | the exit code is the utility's |
| `ericstools/` | lists, queues, maps, string arrays | read lines, split, trim, replace, containers | a container does what its abstract type does, with every pointer consistent |
| Mbed TLS, libc, kernel | outside `src/` | parse, sign, encrypt, `fopen`, `rename`, `fclose` | external, modelled from their use |

The utilities interact through files only, with one exception: `req` calls
`genpkey_main()`. `ca`, `req` and `enc` are sequences of steps on files, so what
can be hard about each is an early return, a call that fails, and a process that is
killed in between. The CA directory is the only state that several runs share:
`ca` reads the database whole, changes it in memory and writes it whole, one
system call at a time. Nothing locks it and nothing is rolled back. That is
where the hard behaviour of this program is, and what is modelled first:

- commands that overlap at every system call,
- a crash, or a call that fails, between any two of them,
- the order in which the certificate, the serial file, the database and the
  attributes are written,
- what a command does with a file it finds missing, empty or cut,
- the two-digit years of the database, which three readers guess differently.

In the other parts it is:

- what an output file holds when a command stops half way, and whether the exit
  code says so (`enc`, `genpkey`, `req`);
- results that are passed on unchecked (`req` and the key it has generated);
- scans with one character of context: backslashes in subjects, section tags,
  the last line of a file, a limit on the number of pieces;
- containers kept by hand: rotations of an AVL map, a queue whose list, index
  by priority and index by identifier must agree.

`PROJECT.json` lists each hazard at its line, with the properties that cover it.

## 2. The modules

| module | contents |
|---|---|
| `CADates` | two-digit years as the readers of the database understand them |
| `CA` | the processes, files and steps of `mbedtls-clu ca` |
| `CAProps` | type invariant and properties of `CA` |
| `CALedger` | the abstract specification: a ledger with a published list |
| `CARefinement` | the ledger that the files of `CA` represent |
| `MCCA` | what TLC needs to run instances of `CA` |
| `CAProofs` | `TypeOK`; what a step can do to the lines, the serials and the history, whichever step it is |
| `CARecordProofs` | `OneRewriter`, `NoPhantom`, `CrlSound` |
| `CASoloProofs` | `SerialsDistinct`; `BackupKept`, `SuccessRecorded`, `SignedIsMarkedV` |
| `CARefinementProofs` | `ImplementsLedger` |
| `Pointers` | the null pointer |
| `TreeMap`, `Dictionary` | `long_map` of `tree_map.c`; the dictionary it implements |
| `List`, `Deque` | `list.c`; the sequence it implements |
| `PriorityQueue`, `StableQueue` | `priority_queue.c` with its list and two maps; the stable queue it implements |
| `Strings`, `StringCalls` | `split_on_separators()`, `trim_flanking_whitespace()`, `dynamic_replace()`; their properties |
| `StringProofs` | `SplitCorrect`, `TrimCorrect`, `ReplaceFits`; `ConfigCorrect` |
| `ContainerProofs` | `ListImplementsDeque`, `QueuePointers`, `QueueImplementsStable` |
| `MCEricsTools` | instances of the modules from `TreeMap` to `StringCalls` |
| `Config`, `ConfigCalls` | `parse_config_file()` for a request, an authority and an extension file; its calls and their property |
| `Subject`, `SubjectCalls` | conversion and parsing of subjects; their property |
| `Extensions` | the extensions of a self-signed certificate |
| `Genpkey` | the file system of the one-shot commands; `genpkey` |
| `Req`, `ReqProps` | the steps of `req`, composed of `Config`, `Subject`, `Extensions` and `Genpkey`; what it promises |
| `Tools` | `dhparam` and `crl`, on the file system of `Genpkey`; all the one-shot commands one after the other (`ToolsSpec`) |
| `ToolProofs` | `GeneratedAsAsked`, `DhparamDone`, `CrlDone` |
| `MCConfig` | a configuration file the parser does not read as documented |
| `MCUtilities` | instances of `Config`, `Subject`, `Genpkey`, `Req`, `Tools` and, with `MCEnc`, of `Enc` |
| `Cipher` | external: ideal ciphers with the buffering of the cipher layer |
| `Enc` | the steps of `enc` and what it promises |
| `EncProofs` | `RoundTrip`, `PrefixOnly`, `CipherFormat` |
| `MCEnc` | the files and arguments given to `enc` |

`Strings` is under `Config`, `Subject` and `Extensions`; `Genpkey` is under
`Req`, which calls it for `-newkey`, and `Req` under `Tools`. `CA` takes its configuration as given; its two
calls of the parser are `CAReads` in `ConfigCalls`.

### The CA directory: state

A process `p` is one invocation. `pc[p]` is where `ca_main()` is between two
system calls; `op[p]` is the mode; `mem[p]` is `ca_database.ca_database_entries`;
`uniq[p]` is `ca_database.unique_subject`; `cert[p]` is the certificate being
built (or, for `-revoke`, the one presented); `fd[p]` is the file that the
process has open for writing. `disk` maps each file to its lines or to `NoFile`.
`result` is the exit code of each run. `certs` and `revs` are history: the
certificates that were written and the revocations that were made in memory,
each with its run. `clock` is the year.

`fd` holds the *current name* of the open file, so that `rename()` under an open
descriptor does what the kernel does: the descriptor follows its file, and one
on a replaced file reaches no name any more (`Rename`, `Written`).

### The CA directory: actions

| action | code |
|---|---|
| `Invoke` | argument checks of `ca_main()` |
| `ReadIndex`, `ReadAttr` | database and attributes are read |
| `Refuse` | a certificate, request or key cannot be used: nothing was changed yet |
| `Lookup` | `-revoke`: first entry with the serial becomes R with today's date |
| `OpenCrl`, `CloseCrl` | `-gencrl` and `write_crl()` |
| `ReadSerial`, `CheckUnique`, `WriteCert` | sign, up to `write_certificate()` |
| `SaveSerial`, `OpenSerial`, `CloseSerial` | `serial.old`, then the serial file; the entry is appended in memory |
| `RenameIndex`, `CreateIndex`, `FlushIndex`, `CloseIndex` | `write_database_old_new()`; expired entries become E while it writes |
| `RenameAttr`, `CreateAttr`, `CloseAttr` | `write_database_attr_old_new()` |
| `DieOnTorn` | a field of a cut line is used, uninitialised, and kills the process |
| `Crash` | the process dies between two steps |
| `Tick` | a year passes |
| `Restore` | the operator moves a `.old` file back, when nothing runs |

Every step that calls the system has the outcome in which the call fails, with
the early return the code has there (or has not: `CreateIndex` exits with
success when `fopen()` fails, because `ret` still holds the result of
`rename()`).

### The CA directory: what is abstracted

- Dates are years, counted from 2000; within a year nothing is guessed. The
  century is a constant `Century`, the pivots of `strptime("%y")` (69) and of
  `-gencrl` (50) are `ExpiryPivot` and `StampPivot`.
- A subject is a name; `x509_name_cmp()` is equality. A serial is a number.
- A crash, a full disk or a partial flush cuts the last line of the database, and `Cut` says what
  the next reader makes of it (`ca.c:688-720`). With fewer than five columns its entry is left
  uninitialised: the line is `torn`, and using its fields is undefined; the process may die
  (`DieOnTorn`) or go on (the normal step). Cut inside the subject, it is an ordinary entry
  with a shorter subject (`Beginnings`): `-revoke` finds its serial, the expiry test applies to it,
  and the rewrite makes a whole line of it. The line of a revoked certificate has six columns; cut to
  five its columns are shifted: no revocation date, a date for a serial (`NoSerial`: no
  certificate has it) and the word "unknown" for a subject (`Unknown`). `-gencrl` takes the
  length of the missing date and is killed (`Undated`).
- `Subjects` are the names that can be read; a beginning of one need not be, and ends a `sign` that
  compares subjects with an error.
- A validity is an expiry year at or after the current one.
- The certificate file is not in `disk` (each command has its own output). What was signed is in
  the history `certs`, also when the unchecked `fclose()` of `write_certificate()` lost the
  file: the command goes on all the same.
- The steps on `serial.old` are one step: nothing reads that file.
- The attribute, serial and CRL files are flushed at once when they are closed;
  the database may be flushed once before.
- The content of a CRL is the set of its entries, in no order.

### `req`, `genpkey`, `dhparam` and `crl`

`files` maps a path to what the file holds: a key with its identity, a request,
a certificate, or `Cut`, what a failed write leaves. `cmd` is the
command: its arguments, its environment, what it has made of them (`opt`,
`params`, `names`, `key`, `crt`) and `pc`, the step that comes next. `made`
counts the keys generated, so that each has an identity.

| action | code |
|---|---|
| `GenpkeyRuns` | `genpkey_main()`: options, seeding, generation, the key file |
| `ReqParsesOptions` | the argument loop of `req_main()` and its checks |
| `ReqReadsConfig` | which file, `parse_config_file()`, defaults for key, digest and subject |
| `ReqShows` | `-in` |
| `ReqGeneratesKey` | `-newkey`: the call of `genpkey_main()` |
| `ReqLoadsKey` | seeding, the check of the subject, the key file |
| `ReqWritesRequest` | `write_certificate_request_buffer()` |
| `ReqCertifies`, `ReqWritesCertificate` | `-x509` and `-x509v1`: the certificate from the request, with its extensions; `write_certificate()` |
| `ToolRuns` | `dhparam_main()` or `crl_main()`: options, input, check or verification, the write |
| `Killed` | the process dies between two steps |

`Saved` is `fopen()`, `fwrite()` and `fclose()` with their failures; nothing looks
at `fclose()`, and the outcome `lost` says that it failed.
`write_certificate_request_buffer()` ends without a `return`: what its caller
sees is a fault of its own, `"undefined"`. The build the `Makefile` describes
defines `OPENSSL_ENV_CONF_COMPAT`, so both environment variables count.

A line of a configuration file is a sequence of tokens, a word or one of the
characters the parser looks at. A subject is a sequence of characters, with the
name of an attribute type as one token. An argument is a flag with its value.
Keys, serials and digests are names. The library refuses RSA keys of an odd size
and EC keys without a curve. DH parameters have an identity, a size and a
generator, and suit each other or not, which stands for the checks that P is odd, G more
than 1 and P more than G (`dhparam.c:438-455`); of an odd P the program goes no further to find out
whether it is prime. A list of revocations has an issuer and the key that signed it; `-2`,
`-3` and `-5` are one flag `-g`. That a path length is written for a CA only is the library's doing, and
external (`CertificateExtensions` is about what `req` asks the library for).

### `enc`

`fs` maps a path to the units of a file and whether they are in base64; `run` is
the command, with its options, key, position in the input and cipher context;
`salts` counts the salts drawn. `EncStarts` is everything up to the key,
`EncOpens` opens input and output (the output is emptied here), `EncReadsHeader`
reads the magic and the salt, `EncSetsUp` sets the cipher up and writes the header,
`EncStreams` is one turn of the loop, `EncFinishes` the last block. With base64
`EncBuffered` reads and processes everything at once. `EncCloses` is the end: until then `stdio` may
hold back some of the output. `EncKilled` may come between any two, and leaves of the output what
`Cut` allows: nothing, all of it, or any part that does not end in the header; base64, which is written
line by line, may end inside a group and be unreadable. With `-in` and `-out` naming one
file, the output is emptied before the first read, so there is nothing to read (`Input`).

`-kfile` and `-pass` are modelled by the passphrase they lead to, or by the file that cannot
be opened. The key depends on the digest (`-md`), and on the number of iterations (`-iter`) where
PBKDF2 derives it (`Kdf`); zero iterations are a usage error.

A unit is 8 bytes, so that a block has two and the header two. The ciphers are
ideal: a unit that was encrypted under one key at one place is text again under
that key at that place, and noise otherwise; key derivation is injective. Padding
is modelled exactly, with the ways noise can look like padding. CBC and CTR stand
for the block and the stream modes.

### Containers and strings

Each call of a container is one action, and the containers keep their
representation: nodes with left, right and balance for the tree, with
previous and next for the list, the three structures of the queue. Strings are
sequences of characters; positions are 1-based, and one past the end is the
terminating zero.

## 3. Properties and runs

The runs of `CA` use `Century = 10`, `ExpiryPivot = 7`, `StampPivot = 5`: a short
century, so that a wrap-around is a few years away, with the two pivots apart
as in the code. `CHECK_DEADLOCK FALSE` because the number of commands, faults
and years is bounded: when they are used up, the system stops. The bounds are
`MaxRuns`, `MaxFaults` and `MaxClock`. In the other runs, too, deadlock is not
checked because calls and commands are bounded.

| run | instance | shows |
|---|---|---|
| `ca_solo` | one command at a time, no fault; 4 commands, 2 subjects, serials 1 and 2 presented to `-revoke`, validities of 0 and 4 years, `unique_subject` yes or no, 1 year passes | `SuccessRecorded`: exit code 0 means the database holds it. `SignedIsMarkedV`: a new certificate is recorded as valid. `ImplementsLedger`: the files together behave as the ledger |
| `ca_faults` | one command at a time; 3 commands, up to 2 faults, attributes "no" or unset, a CRL of at most one entry, a validity of a whole century; two subjects, one a beginning of the other, and a beginning that cannot be read | `TypeOK`; `SerialsDistinct`: acknowledged certificates have different serials, whatever failed before; `CrlSound`; `BackupKept`: the first fault leaves a database or backup with everything acknowledged so far; `NoPhantom`: whatever was cut and then rewritten, each line with its columns in place has the expiry date and the serial of a certificate that was signed, and its subject or a beginning of it |
| `ca_concurrent` | 3 commands interleaved (symmetric), no fault, cut files read and rewritten by the others | `OneRewriter`, `NoPhantom`, `CrlSound` |
| `ca_liveness` | 2 processes, 3 commands, fair | `IndexComesBack` |
| `ca_exit_code` | 1 command, 1 fault | violation: see findings |
| `ca_revoke_expired` | 2 commands | violation: see findings |
| `ca_far_expiry` | 1 command, validity of 8 years in a century of 10 | violation: see findings |
| `ericstools` | trees of every shape over 12 keys and every call on the shapes over 5; a list of 4 nodes with indices up to 5; a queue of 3 nodes, 3 priorities and 3 identifiers, two of which have the same hash; all texts of up to 4 characters over a blank, a separator and a letter | `MapOrdered`, `MapBalanced`: the tree stays an ordered AVL tree with correct balance factors. `QueuePointers`: list, priority index and identifier index agree. `MapImplementsDictionary`, `ListImplementsDeque`, `QueueImplementsStable`: refinements. `SplitCorrect`, `TrimCorrect`, `ReplaceFits`: the loops against definitions without loops |
| `utilities` | for `req` and the parsers, configuration files, subjects and argument lists that are one edit away from ordinary ones; 2 commands; every failing call; kills; for `crl`, files of up to two lists and two certificates; for `dhparam`, an input whose parameters do not suit each other; for `enc`, one encryption with every combination of options, one decryption with the matching options or with one argument more, among them other numbers of iterations and digests; files of 0, 1, 2, 3, 4, 5 and 8 units with a chunk of 4 and a block of 2, last units that look like padding; every failing call; kills | `ConfigCorrect`: in a plain file a field holds the last value of its section. `SubjectRoundTrip`: a subject survives its conversion. `GeneratedAsAsked`, `RequestDone`, `CertificateExtensions`, `DhparamDone`, `CrlDone`: what a success promises, and what a failure leaves alone. `RoundTrip`: decryption inverts encryption. `PrefixOnly`: an incomplete decryption shows a beginning of the text or nothing. `CipherFormat`: the output is in the format of `openssl enc` |
| `req_stale_key` | no fault | violation: see findings |
| `req_command_line` | one command, an environment and two files, no fault | violation of `CommandLineWins`, in both of its parts: see findings |
| `config_documented` | one file | violation of `ConfigAsDocumented`, in four fields: see findings |

Why the bounds are enough: four commands are the shortest sequence in which a
certificate is issued, revoked, put on a CRL and another one is issued for the same
subject; two faults are a fault and a fault of the command after it; three
commands are the shortest in which one renames the file that a second is writing
while a third writes the one before. For every bound, `TypeOK`,
`OneRewriter`, `NoPhantom`, `CrlSound`, `SerialsDistinct`, `BackupKept`, `SuccessRecorded`,
`SignedIsMarkedV`, `ImplementsLedger`, `QueuePointers`, `ListImplementsDeque`, `QueueImplementsStable`, `RoundTrip`,
`PrefixOnly`, `CipherFormat`, `GeneratedAsAsked`, `DhparamDone`, `CrlDone`, `SplitCorrect`, `TrimCorrect`, `ReplaceFits`
and `ConfigCorrect` are proved, under the hypotheses of section 5. Twelve keys are what a tree of height 4 needs, where a removal
rotates at two levels. Two commands are the fewest in which the second meets a file,
or a key, of the first. The lengths of `enc` are those at and next to the end of a block
and of a chunk, and two whole chunks; a decryption is one step longer by its header.

**Fairness.** `FairSpec` assumes weak fairness of `Step(p)` for each process: the
operating system goes on running a process it has started. Nothing is assumed
about `Invoke`, `Restore`, `Crash`, `Tick` or `FlushIndex`. `IndexComesBack`
holds without a fault only: after a crash it is the operator who has to act. The
other modules state no fairness: a command is a bounded sequence of steps that
waits for nobody, so there is nothing it could wait for in vain.

**What does not hold, and is not claimed.** Two sign commands at a time can read
the same serial; a command writes back the database as it was when it was read, so
what another command wrote meanwhile is lost. The code promises nothing else, so
`SerialsDistinct`, `BackupKept` and `ImplementsLedger` are stated for one command
at a time (`Solo`).

`ConfigCorrect` is about files every line of which the parser reads as
`docs/config-files.md` says (`PlainFile`): a header; a line without `=`, or a comment that has none;
an assignment with one `=`, a value, and quotes only around it. It is
said against that format and not against the parser: a comment begins at `#`, a value is all
that follows the first `=`, the quotes around it are taken off, and a section is what follows its
header. What is read in another way is in the findings 6 to 9. A header that is
malformed, a tag without a value and a section that occurs twice (the parser takes the first one)
are left out too: the documentation does not say what they mean. Of the fields that the section of
the CRL extensions sets as well, only `ConfigAsDocumented` speaks.

`SubjectRoundTrip` takes the escapes as `tests/KNOWN_DIFFERENCES.md:35-45` defines them:
a backslash takes the next character literally. (OpenSSL treats two and more backslashes in a row
in another way, which that file accepts.) `Proper` leaves out subjects that repeat a type
(of `/O=a/O=b` the request has `O=b` only, `x509_create.c:348`, without an error: see the hazards),
and with a value that starts with `#` (read as hexadecimal)
or ends with a backslash (the parser looks back one character only), and
`PlainText` leaves out defaults of a configuration file that start with `#` or
contain a comma or a backslash (they are not escaped before they are parsed).
`RequestDone` says nothing of `serialNumber_default`: `docs/config-files.md:53` lists it among the
defaults of a subject, the code reads it and does not use it. `CertificateExtensions`
says that `extendedKeyUsage` is never written, which `docs/req.md:135` states as a gap, and that
a section with any extension makes the certificate version 3, which is a finding.
`Matches` asks for the same options, for the same digest, and the same number of iterations where the
key depends on it, and for different files: `enc` with equal `-in` and `-out` empties its input. `RoundTrip`, `PrefixOnly` and
`CipherFormat` speak of commands that have opened their files (`opened`), on an input of text
(`Plain`: the ideal cipher gives back nothing else), without a failing call, because `enc` does
not look at what `fread()` and `fwrite()` say; kills are allowed in `PrefixOnly`. An
attribute file that is empty, or does not set `unique_subject`, kills a command through a null
pointer (`ca.c:743`, `ca.c:1179`): the model has both steps, and no property is about them, as
the command has changed nothing when it dies.
`RequestDone` allows `lost`, the failed `fclose()`.

### Refinement

`CALedger` has no files: `Issue`, `Revoke`, `Publish`, `Withdraw` and `Pass` are
single steps on a set of certificates. `CARefinement` maps the files to it. While
`index.txt` is being replaced, the ledger is what `index.txt.old` holds; it
changes in `CloseIndex`, when the new file is complete. The mapping reads
the years as the program's readers do, so it also says that within the pivots
the two guesses agree with the years that were meant. A revoked certificate
that has expired may be missing from a CRL: that is what the code does, and the
ledger allows it in `Publish`.

`TreeMap` implements `Dictionary`, `List` implements `Deque` and
`PriorityQueue` implements `StableQueue`: the abstract state is read off the
representation (an in-order walk; the nodes from the head; for the queue, each node at the
number of nodes of smaller priorities plus its place in its list), and every call
returns what the abstract one returns. Ties leave the queue in the order in which they
entered it.

## 4. Findings

1. `ca_exit_code`: when the new `index.txt` (or `index.txt.attr`) cannot be
   created, the command prints " failed" and exits with 0 (`ca.c:144`, `ca.c:114`).
   The run ends with no `index.txt` and a successful sign command.
2. `ca_revoke_expired`: revoking a certificate that has expired marks it E, not
   R, contrary to `docs/ca.md:53`; no CRL will list it (`ca.c:157-161`).
3. `ca_far_expiry`: a certificate that expires in 2069 or later is recorded as
   expired by the command that signs it (`ca.c:153`).
4. `req_stale_key`: `req -newkey` does not look at what `genpkey_main()`
   returns (`req.c:754`). If the key cannot be generated and the key file exists,
   the request is made for the old key and the command exits with 0, while
   `docs/req.md:27` says that a new key is generated.
5. `req_command_line`: `MBEDTLS_CONF` and `OPENSSL_CONF` win over `-config`
   (`req.c:533`, `ca.c:542`); `docs/config-files.md:28` says the opposite.
6. `config_documented`: `# default_md = sha1` is taken for an assignment, because "#" and "=" separate
   alike (`mbedtlsclu_common.c:259`); `docs/config-files.md:3,13` promises the format of
   `openssl.cnf` but for two differences, and this is not one of them.
7. `config_documented`: of `dir = a=b` the field keeps `a` (`mbedtlsclu_common.c:260`);
   `docs/config-files.md:19` says that values are taken verbatim.
8. `config_documented`: all the quotes of a value go (`mbedtlsclu_common.c:270`);
   `docs/config-files.md:22` speaks of the surrounding ones.
9. `config_documented`: certificates are signed with the extensions of the section that
   `crl_extensions` names, where it sets them (`mbedtlsclu_common.c:497`); `docs/config-files.md:95-96`
   says that section is for CRLs.
10. `req_command_line`: `-x509v1` with a configuration that asks for any extension gives version 3
    (`req.c:978`); `docs/req.md:22` says v1.

The one counterexample of `req_command_line` shows 5 and 10, that of `config_documented` 6 to 9.

## 5. Proofs

| theorem | statement | argument |
|---|---|---|
| `TypeCorrect` (`CAProofs`) | `Spec => []TypeOK` | `TypeOK` is not inductive: a process that closes a file writes lines of that file's kind only if its descriptor is one of that kind. `TypeInv` adds `FdOK`, which ties `fd[p]` to `pc[p]`, and `RunOK`, which gives every running process a mode and a number |
| `OneRewriterAlways` (`CARecordProofs`) | `Spec => []OneRewriter` | `FileInv` adds `FdLive`: a descriptor that reaches a name reaches an existing file. Hence a process that finds the name free truncates nobody's file, and a missing file can only be renamed by nobody. Three kinds of steps remain: letting go (`LetGo`), opening (`Opened`), renaming (`Renamed`) |
| `NoPhantomAlways` (`CARecordProofs`) | `Spec => []NoPhantom` | `RecordInv` adds `InFlight`: from `write_certificate()` on, a sign command carries a certificate that was signed. One lemma for each thing that happens to lines (refreshed, cut, revoked, appended) and one for each way a file changes; a cut of a line that traces to a certificate traces to it, and so does a cut of that (`TracesTo`, through the transitivity of `Beginnings`) |
| `CrlSoundUntilPivot` (`CARecordProofs`) | `Spec => [](clock < StampPivot => CrlSound)` | What `CrlSound` says of the list in terms of years is lost as soon as the clock passes the pivot. `CrlInv` says it in terms of the two digits: a line marked R in a file or a memory has the digits of a revocation that happened (`MarkedBy`), and the list has what its reader makes of such digits (`CrlStamped`). Below the pivot the digits give the year back |
| `SerialsDistinctSolo` (`CASoloProofs`) | `Spec => []SerialsDistinct`, given `Solo` | `FileAhead`: what the serial file holds is above every serial in a line or acknowledged. `SerialInUse` follows the serial of a running command: the file still has it, then is empty (a crash here leaves a file that no sign command accepts), then is past it. So a serial may be in the database and in a failed certificate at once, but is acknowledged once |
| `BackupKeptSolo` (`CASoloProofs`) | `Spec => BackupKept`, given `Solo` | `DurableInv`: until the first fault the database, or its backup while `pc` is between `rename()` and the last `fclose()`, holds all that was acknowledged and has no cut line, and so does the memory of the command (`FilesGood`); what the command itself has done is in the memory it writes and then in the file (`WorkKept`). `BookInv` ties the history to the running command: who has signed or revoked under its number |
| `SuccessRecordedSolo` (`CASoloProofs`) | `Spec => SuccessRecorded`, given `Solo` and no fault | `WorkKept` up to the step in which the command ends; one lemma each for how `sign` and `-revoke` end |
| `SignedIsMarkedVSolo` (`CASoloProofs`) | `Spec => SignedIsMarkedV`, given `Solo`, no fault and expiry years below `ExpiryPivot` | `WorkKept` speaks of lines that are `Fresh`: V as long as the certificate is valid, which the rewrite keeps when the two digits read back as the year that was meant |
| `LedgerImplemented` (`CARefinementProofs`) | `Spec => ImplementsLedger`, given `Solo`, no fault and `Dated` | `LedgerInv` joins the two invariants above to what relates memory and files: a command works on the database as it is until it edits its copy (`MemKept`), the subject it has checked stays free (`SubjectFree`), the attributes it has read are those of the database (`AttrKept`), a line is R or E for a reason (`LinesOK`), a serial is one of as many as there were commands (`SerialRange`). Then one lemma for each action: `CloseIndex` is `Issue` or `Revoke`, `CloseCrl` is `Publish`, `OpenCrl` is `Withdraw`, `Tick` is `Pass`, the rest stutter |
| `ListIsDeque` (`ContainerProofs`) | `ListSpec => ListImplementsDeque` | The invariant `Chained` names a sequence of different nodes; head, tail, length and every pointer are what that sequence spells. Attaching and removing give the sequence with a node more or less, the other end is the same list read backwards, and the walk of `list_element_at()` ends at the node it should |
| `QueuePointersAlways` (`ContainerProofs`) | `QueueSpec => []QueuePointers` | `QueueOK` strengthens it: each list of a priority is `Chained` and not empty, holds the nodes of that priority and no others, the entry of a hash names a queued node whose identifier has that hash, with its priority, and `first` is the head of the smallest priority. Three lemmas: a node enters, the node an identifier names leaves, the first leaves |
| `QueueIsStable` (`ContainerProofs`) | `QueueSpec => QueueImplementsStable` | To `QueueOK` it adds that the nodes can be listed in the order in which they leave (`SortedIn`): as many as `length` says, by priority, and those of a priority as their list has them. What the refinement reads off is that list (`QueuedIn` of it is `Items`). A push puts a node behind the last one of a priority not greater, a removal closes the gap, `first` is the first of the list; each call does to the sequence what the call of `StableQueue` does. For `destroy_priority_queue()`, after `j` shifts the first `j` are handed out and the rest is queued (`After`), up to the last |
| `RoundTripAlways`, `PrefixOnlyAlways`, `CipherFormatAlways` (`EncProofs`) | `EncSpec => []RoundTrip`, `[]PrefixOnly`, `[]CipherFormat` | One invariant, `EncInv`. The output of a command that encrypts holds the header and the cipher text of what it has processed, and its context holds back the rest of what it has read, as far as the last whole block (`EncryptOK`). A file that a kill has cut is one that a failing encryption could have left (`EncryptedCut`), for any number of units. Once it has ended its output stays that until a command writes to one of its files (`BeforeOK`). A matching decryption reads the same header, hence has the same key; what it has written is the beginning of the text that its context has passed (`DecryptOK`). Under it are lemmas about `Update` and `Finish` for any pieces of any lengths (`UpdateIs`, `FinishEncrypts`, `FinishDecrypts`): a padded decryption holds back one whole block, so padding is only ever seen by `Finish`, and the last byte of that block says how much of it is text |
| `GeneratedAsAskedAlways`, `DhparamDoneAlways`, `CrlDoneAlways` (`ToolProofs`) | `ToolsSpec => []GeneratedAsAsked`, `[]DhparamDone`, `[]CrlDone` | The properties read a command line from the right (the last `-out`, the last size); the program reads it from the left, one argument after the other. `GenpkeyReads`, `DhparamReads` and `CrlReads` say that after any number of arguments the options are what a reading of those from the right gives, or the command has given up; a least number of arguments for which this fails would have a predecessor for which it holds. `ToolInv` adds `Sound` to the three properties: a command starts with `before` and `made` as they are, what is in a file can be parsed, and a `req` that is about to write a certificate holds one. Then one lemma for each way a command ends (`GenpkeyEnds`, `DhparamLeaves`, `CrlLeaves`), and `ReqSound` for the steps of `req` that come between |
| `SplitCorrectAlways`, `TrimCorrectAlways`, `ReplaceFitsAlways` (`StringProofs`) | `StringSpec => []SplitCorrect`, `[]TrimCorrect`, `[]ReplaceFits` | A loop is a recursive function over places. It has a value at every place because each turn brings it closer to its end (`LoopHasValues`), and what holds at a place if it holds closer to the end holds at all of them (`CloserInduction`, from the well-foundedness of the numbers). `Skip` and `Find` return the end of a run (`SkipIs`, `FindIs`). From a place where a piece starts, the runs of the text are the one that starts there and those from the next start on (`RunHere`), so they can be listed from left to right (`RunsInOrder`), and the pieces are the first of that list (`PiecesAre`). Without a limit `PiecesAre` also needs that no more pieces were made than separators passed: so the array does not end before the text does. The two passes of `dynamic_replace()` step from place to place alike (`Goes`), so the length of what is written is what was counted (`ReplaceLength`) |
| `ConfigCorrectAlways` (`StringProofs`) | `ConfigAssumption` implies `ConfigSpec => []ConfigCorrect` | Two stages. First, for any file, what the loops of `locate_value()` and `locate_tag()` return, as recursive functions over the lines with a value at each (`BackLoopHasValues`, `ForwardHasValues`): the value of the last line whose first two pieces assign the field (`Reads`; `AssignedIsSaid`, `ReplaceIsUnquoted`, `LocatedValue`), between the least header of the name and the next header or the last line (`LocatedTag`, `SectionIs`); a header line between assigns nothing (`HeaderSaysNothing`). Then, for a plain line, `Reads` is the documented `Says` (`AssignmentReads`, `RemarkReads`, `HeaderReads`, together `PlainReads`): its pieces are the text before the first `=` and that between it and the comment (`TwoRuns`), and dropping every quote is dropping those around the value (`OmitIsBare`, `BareIsUnquoted`). So in a plain file the parser's range is the documented section, and its value the last one there (`PlainSection`, `PlainLast`, `PlainValue`). Filling from one section changes its fields only (`FilledIs`), and the fields of the sections differ but for the extensions, which CRLs read again and which `ConfigCorrect` excepts (`ParsedRequest`, `ParsedAuthority`, `ParsedExtFile`, `RequestIsRead`, `AuthorityIsRead`) |

**What they assume.** All theorems about `CA` take `DatesAssumption` and `CAAssumption`: any
processes, names, bounds and pivots. The first four hold with commands that overlap, crashes, failing
calls, cut lines and the operator's restore. The others add a hypothesis each where
the code needs one:

- `Solo`, one command at a time: the program locks nothing, and section 3 says what two
  sign commands at a time do. Crashes and faults are still allowed in
  `SerialsDistinctSolo` and, as the fault the property is about, in `BackupKeptSolo`.
- `MaxFaults = 0` where the property speaks of success: `ca_exit_code` shows that the exit code
  is 0 after a failed `fopen()`.
- `Dated` and its parts: no year of this calendar reaches the pivot its reader
  uses (2050 for a revocation, 2069 for an expiry), and the horizon of the ledger does not
  cut a date off. `ca_far_expiry` shows that it is needed. The constants of `ca_solo`
  satisfy all of this.
- `NoFile \notin SUBSET CrlItems`: a missing file differs from every list.
- `ListAssumption`, `QueueAssumption`: the null pointer is no node; priorities are
  numbers. The number of nodes, priorities, values, identifiers and hashes is arbitrary.
- `StringAssumption`: limits are numbers, and the text that is looked for is not empty.
  Characters, separators, and the texts that are put in are arbitrary; `MaxLen` is any length.
- `ConfigAssumption`: a file is a sequence of lines and a line has at least one token, because
  `get_file_lines()` drops empty lines; the null pointer is no text and no range of lines.
- `EncAssumption`: a block and a chunk have at least one unit (the chunk need not be a multiple of
  the block); the null pointer is no number and no text. `EncSpec` allows any command with any
  arguments after any other, on any files, with kills and failing calls; every behaviour of
  `MCUtilities` is one of it in `fs`, `run` and `salts`.
- `ToolsAssumption`: the default size of a key is one the library allows, and the null pointer
  is neither a number nor a reason to stop. `ToolsSpec` allows any command with any
  `CommandLine` after any other, on any files that can be parsed (`Parsable`), with kills and
  failing calls. A `CommandLine` is what reaches the program: `atoi()` makes a number of a size, and a
  file name after `-in` is there, because the parsers take a value only with `i + 1 < argc`.

Each proof is `Init => I`, `I /\ [Next]_vars => I'`, `I => P`, with one lemma for each
action or group of actions that end alike; the theorem combines them with PTL. Many
invariants depend only on what a step does to the lines, not on which step it is:
the lemmas at the end of `CAProofs` say once for all actions what becomes of a memory,
the database, its backup, the serial file and the history, and the proofs after it
are about those few cases. A function with one recursive call
(`list_element_at()`) is reasoned about by the least index at which something else (`MinExists`, `Smallest`, from the well-foundedness of the numbers).

**Only model-checked.**

- `IndexComesBack`: liveness under fairness.
- `MapOrdered`, `MapBalanced`, `MapImplementsDictionary`: they need induction over
  trees, through operators that rebuild a tree along a path.
- `SubjectRoundTrip`: what the loops over the characters of a subject return for every
  subject. They carry a state of their own (the pending piece, an escaped character), and need
  an invariant over that state as `PiecesAre` is one for `Split`.
- `RequestDone`, `CertificateExtensions`: they speak of subjects and extension values, which
  such loops convert.

## 6. Plan

Done: `CA` with its dates, properties, abstract specification and theorems;
configuration files; subjects and extensions; `genpkey` and `req`; `dhparam` and `crl`; `enc`; of
`ericstools`, the string functions the utilities use and the containers, which no
utility calls, with the theorems about the list and the queue, both refinements included,
and about the string functions, configuration files, `enc`, `genpkey`, `dhparam` and `crl`.

Left, in this order:

1. `ca` without a serial file or a database in its configuration; the dates
   given as arguments and their third pivot (in `CADates`).
2. A database line written and read back, for each status, with
   `split_on_separators()`; writing the extensions of a signed certificate.
3. Proofs: the order of the keys of a tree under its rotations; the parser of subjects;
   what a successful `req` has written.

### Not modelled

- `x509`, `rand` and the dispatcher: they print, change no file and keep no state.
- The copies of keys a `string_map` may own, and
  `get_priority_queue_element_with_id()`, which frees a node that stays in the
  queue (only its lookup is modelled; see the hazards).
- `convert_to_regex()`, `dynamic_read()`, the shell output, sorting, joining and the
  file functions of `ericstools` but for `get_file_lines()`: no utility calls them.
- Encodings (DER, PEM), cryptography, numeric types and hexadecimal values in
  subjects, printing (`-text`, `-p`).
- What CBC shows of the blocks after a damaged one; of what `stdio` holds back, only what a kill
  loses.
