------------------------------ MODULE KeyFile -------------------------------
(***************************************************************************)
(* core/config/key_config.cpp: a process loads its static keys from a      *)
(* file, or generates them and saves them there.  The server then writes   *)
(* its public keys to a second file, which is copied to the clients.  The  *)
(* disk may be full and the process may die at any step; the files are all *)
(* that remains of it.  A file that cannot be opened for reading is taken  *)
(* to be one that cannot be opened for writing either.                     *)
(***************************************************************************)
EXTENDS Naturals, FiniteSets

VARIABLES
    keyfile,    \* the file on disk
    pubfile,    \* server_pub.conf
    trusted,    \* the keys that a client has loaded from a copy; 0 before
    loading,    \* where LoadOrGenerateKeys or SavePublicKeys is
    keys,       \* the keys this process holds, numbered; 0 before it has any
    generated,  \* keys generated so far, over all processes
    used        \* the keys that processes went on with

keyvars == <<keyfile, pubfile, trusted, loading, keys, generated, used>>
pubvars == <<pubfile, trusted>>

\* A file with all four values of the keys k; an incomplete one holds no keys.
Saved(k) == [exists |-> TRUE, keys |-> k]
Partial == [exists |-> TRUE, keys |-> 0]
Absent == [exists |-> FALSE, keys |-> 0]

KeyInit ==
    /\ keyfile = Absent
    /\ pubfile = Absent
    /\ trusted = 0
    /\ loading = "probe"
    /\ keys = 0
    /\ generated = 0
    /\ used = {}

\* LoadKeys: a file that lacks one of the four values, or has one cut short,
\* does not parse.
LoadKeys(file) == file.keys

\* The file exists: it is loaded, or there are no keys.  It is opened a second
\* time to be read, which may fail.
LoadExisting ==
    /\ loading = "probe"
    /\ keyfile.exists
    /\ keys' \in {LoadKeys(keyfile), 0}
    /\ loading' = IF keys' = 0 THEN "failed" ELSE "done"
    /\ used' = used \cup ({keys'} \ {0})
    /\ UNCHANGED <<keyfile, generated, pubvars>>

\* The probe cannot open the file, because there is none or because access is
\* denied: new keys are made in either case.
Generate ==
    /\ loading = "probe"
    /\ generated' = generated + 1
    /\ keys' = generated'
    /\ loading' = IF keyfile.exists THEN "denied" ELSE "open"
    /\ UNCHANGED <<keyfile, used, pubvars>>

\* One of the two key pairs cannot be generated.
GenerateFails ==
    /\ loading = "probe"
    /\ loading' = "failed"
    /\ UNCHANGED <<keyfile, keys, generated, used, pubvars>>

\* SaveKeys opens the file, which makes it empty.
SaveOpen ==
    /\ loading = "open"
    /\ keyfile' = Partial
    /\ loading' = "write"
    /\ UNCHANGED <<keys, generated, used, pubvars>>

\* A slip in LoadOrGenerateKeys: the result of SaveKeys is not tested.
SaveFailsIgnored ==
    /\ loading \in {"denied", "open", "write"}
    /\ loading' = "done"
    /\ used' = used \cup {keys}
    /\ UNCHANGED <<keyfile, keys, generated, pubvars>>

\* The file cannot be opened, or the stream is not good after the writes.
SaveFails ==
    /\ loading \in {"denied", "open", "write"}
    /\ loading' = "failed"
    /\ keys' = 0
    /\ UNCHANGED <<keyfile, generated, used, pubvars>>

\* The stream is good after the writes, which it may only have buffered.  It
\* is closed after SaveKeys has tested it: a failure then goes unnoticed.
SaveClose ==
    /\ loading = "write"
    /\ keyfile' \in {Partial, Saved(keys)}
    /\ loading' = "done"
    /\ used' = used \cup {keys}
    /\ UNCHANGED <<keys, generated, pubvars>>

\* A slip in main: the public keys are written before the private ones are saved.
PublishOpenUnsaved ==
    /\ loading \in {"open", "done"}
    /\ pubfile' = Partial
    /\ loading' = "publish"
    /\ UNCHANGED <<keyfile, trusted, keys, generated, used>>

\* main has keys and writes the public ones, which empties the file first.
\* If it cannot, it goes on with a warning.
PublishOpen ==
    /\ loading = "done"
    /\ pubfile' = Partial
    /\ loading' = "publish"
    /\ UNCHANGED <<keyfile, trusted, keys, generated, used>>

PublishFails ==
    /\ loading \in {"done", "publish"}
    /\ loading' = "published"
    /\ UNCHANGED <<keyfile, pubvars, keys, generated, used>>

PublishClose ==
    /\ loading = "publish"
    /\ pubfile' \in {Partial, Saved(keys)}
    /\ loading' = "published"
    /\ UNCHANGED <<keyfile, trusted, keys, generated, used>>

\* LoadServerPublicKeys: a client starts with a copy of the file, made at any
\* time, if it has both values.
LoadServerPublicKeys ==
    /\ LoadKeys(pubfile) # 0
    /\ trusted' = LoadKeys(pubfile)
    /\ UNCHANGED <<keyfile, pubfile, loading, keys, generated, used>>

KeyStep ==
    \/ LoadExisting \/ Generate \/ GenerateFails
    \/ SaveOpen \/ SaveFails \/ SaveClose
    \/ PublishOpen \/ PublishFails \/ PublishClose

\* What a new process has: the file.
KeyRestart ==
    /\ loading' = "probe"
    /\ keys' = 0
    /\ UNCHANGED <<keyfile, generated, used, pubvars>>

\* Every process that gets past LoadOrGenerateKeys has the same static keys as
\* those before it, so that the public keys given to the peers stay valid,
\* wherever a process died and whichever write failed ("Second call with same
\* path loads identical public keys").
KeysStable == Cardinality(used) <= 1

\* What a client has loaded are the keys of every server process that gets as
\* far as answering, whenever the copy was made and whatever became of the
\* process that wrote it ("Copy this file to the client machine").
TrustedKeysServe == trusted # 0 /\ loading = "published" => keys = trusted
=============================================================================
