----------------------------- MODULE NoiseTerms -----------------------------
(***************************************************************************)
(* Symbolic cryptography of core/handshake/handshake_helpers.cpp and of    *)
(* the primitives under it.  Keys, secrets and ciphertexts are terms that  *)
(* can only be compared: hashes and key derivations do not collide, and    *)
(* an AEAD opens exactly under its own key and associated data.            *)
(*                                                                         *)
(* The chaining key C is the sequence of the inputs mixed into it since    *)
(* InitialChainingKey, the transcript hash H the sequence of the data      *)
(* mixed into it since InitialHash.                                        *)
(***************************************************************************)
EXTENDS Sequences

\* Public keys.  A private key is named by its public key.
StaticX(p) == <<"sx", p>>
StaticK(p) == <<"sk", p>>
EphemeralX(n) == <<"ex", n>>
EphemeralK(n) == <<"ek", n>>

\* x25519::DeriveSharedSecret: the same for both owners.
DH(a, b) == {a, b}

\* ml_kem::Encapsulate to key pk with fresh randomness r.
Encapsulate(pk, r) == [pk |-> pk, r |-> r]
KemSecret(ct) == <<"ss", ct>>

\* ml_kem::Decapsulate: with the wrong key it succeeds and yields an
\* unrelated secret (implicit rejection).
Decapsulate(key, ct) ==
    IF ct.pk = key THEN KemSecret(ct) ELSE <<"rejected", ct, key>>

\* MixHash, and MixKey = KDF1.
MixHash(H, data) == Append(H, data)
MixKey(C, input) == Append(C, input)

\* Output i of KDF2/KDF3 whose first output is the chaining key C.
KdfOutput(C, i) == [chain |-> C, out |-> i]

\* The ciphertext of EncryptAndHash under key k with the transcript H as
\* associated data.
Encrypt(k, H, plaintext) == [key |-> k, ad |-> H, plaintext |-> plaintext]

\* The test of DecryptAndHash: the tag verifies.
Decrypts(k, H, ct) == ct.key = k /\ ct.ad = H

\* What EncryptAndHash and a successful DecryptAndHash mix into H.  The
\* ciphertext's associated data is H itself and adds nothing to it.
MixCiphertext(H, ct) == MixHash(H, [key |-> ct.key, plaintext |-> ct.plaintext])
=============================================================================
