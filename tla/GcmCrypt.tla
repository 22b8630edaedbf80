------------------------------ MODULE GcmCrypt ------------------------------
(***************************************************************************)
(* aes_256_gcm_encrypt and aes_256_gcm_decrypt (lib/hwkey_crypt): calls    *)
(* one after the other on one heap, with each call of the library allowed  *)
(* to fail.  Both work in out_buf, a block of the heap, copy from it to    *)
(* the caller's out, and clear the block before they free it.              *)
(*                                                                         *)
(* A byte is what it is of: "plain", "cipher", "tag", or "garbage", what a *)
(* forged cipher text decrypts to.  External: malloc, memcpy_s and the EVP *)
(* functions; the tag check of EVP_DecryptFinal_ex fails for a forged text *)
(* and for no other.                                                       *)
(***************************************************************************)
EXTENDS Integers, Sequences, SequencesExt

CONSTANTS
  TagSize,   \* sizeof(struct gcm_tag)
  MaxText,   \* bound: bytes of plain text
  MaxCrypts  \* bound: calls

ASSUME GcmAssumption == TagSize \in Nat \ {0} /\ MaxText \in Nat /\ MaxCrypts \in Nat

VARIABLES
  step, op, rc,  \* the step the call is at; "encrypt" or "decrypt"; its result
  text_size,     \* plain_size, or cipher_size - TagSize
  forged,        \* the cipher text does not verify
  ctx, has_buf,  \* an EVP_CIPHER_CTX is held, and out_buf is
  out_buf,       \* the bytes of the block
  freed,         \* what the block last freed was left with
  out, out_size, \* the caller's; out_size is -1 until the call sets it
  crypts         \* calls so far

input == <<op, text_size, forged>>
result == <<out, out_size>>
cryptVars == <<step, input, rc, ctx, has_buf, out_buf, freed, result, crypts>>

Bytes == {"plain", "cipher", "tag", "garbage", "leftover", "zero"}
Fill(n, b) == [i \in 1..n |-> b]
Over(s, t) == [i \in 1..Len(s) |-> IF i <= Len(t) THEN t[i] ELSE s[i]]
BlockSize == IF op = "encrypt" THEN text_size + TagSize ELSE text_size
Text == Fill(text_size, CASE op = "encrypt" -> "cipher" [] forged -> "garbage" [] OTHER -> "plain")

CryptInit ==
  /\ step = "Idle" /\ op = "encrypt" /\ text_size = 0 /\ forged = FALSE /\ rc = "GENERIC"
  /\ ctx = FALSE /\ has_buf = FALSE /\ out_buf = <<>> /\ freed = {}
  /\ out = <<>> /\ out_size = -1 /\ crypts = 0

(* A size below zero is a cipher text shorter than its tag: the subtraction *)
(* wraps, and malloc refuses what it asks for.                             *)
Crypt(o, n, f) ==
  /\ step = "Idle" /\ crypts < MaxCrypts /\ crypts' = crypts + 1
  /\ op' = o /\ text_size' = n /\ forged' = f
  /\ rc' = "GENERIC" /\ out' = <<>> /\ out_size' = -1
  /\ \/ /\ n >= 0 /\ step' = "Ctx" /\ has_buf' = TRUE
        /\ out_buf' = Fill(IF o = "encrypt" THEN n + TagSize ELSE n, "leftover")
     \/ UNCHANGED <<step, has_buf, out_buf>>   \* bad arguments, or malloc failed
  /\ UNCHANGED <<ctx, freed>>

To(place) == step' = place /\ UNCHANGED rc
Fail(r) == step' = "Exit" /\ rc' = r

NewCtx ==
  /\ step = "Ctx"
  /\ \/ ctx' = TRUE /\ To("Setup")
     \/ UNCHANGED ctx /\ Fail("GENERIC")
  /\ UNCHANGED <<input, has_buf, out_buf, freed, result, crypts>>

(* Init_ex, SET_IVLEN and the update with the aad.                         *)
Setup ==
  /\ step = "Setup"
  /\ To("Update") \/ Fail("GENERIC")
  /\ UNCHANGED <<input, ctx, has_buf, out_buf, freed, result, crypts>>

(* An update that fails may have written some of its text; the encryption  *)
(* is finished here too, it writes no more.                                *)
Update ==
  /\ step = "Update"
  /\ \/ out_buf' = Over(out_buf, Text) /\ To("Copy")
     \/ out_buf' \in {out_buf, Over(out_buf, Text)} /\ Fail("GENERIC")
  /\ UNCHANGED <<input, ctx, has_buf, freed, result, crypts>>

CopyOut ==
  /\ step = "Copy"
  /\ \/ out' = SubSeq(out_buf, 1, text_size) /\ To("Tag")
     \/ UNCHANGED out /\ Fail("GENERIC")
  /\ UNCHANGED <<input, ctx, has_buf, out_buf, freed, out_size, crypts>>

(* GET_TAG writes over the text of out_buf, copied by now.                 *)
GetTag ==
  /\ step = "Tag" /\ op = "encrypt"
  /\ \/ /\ out_buf' = Over(out_buf, Fill(TagSize, "tag"))
        /\ out' = out \o SubSeq(out_buf', 1, TagSize)
        /\ out_size' = text_size + TagSize /\ Fail("NO_ERROR")
     \/ UNCHANGED <<out_buf, result>> /\ Fail("AUTH_FAILED")
     \/ /\ out_buf' = Over(out_buf, Fill(TagSize, "tag"))    \* its copy failed
        /\ UNCHANGED result /\ Fail("GENERIC")
  /\ UNCHANGED <<input, ctx, has_buf, freed, crypts>>

FinalUnchecked ==               \* mutant: EVP_DecryptFinal_ex's result is not looked at
  /\ step = "Tag" /\ op = "decrypt"
  /\ \/ out_size' = text_size /\ Fail("NO_ERROR")
     \/ UNCHANGED out_size /\ Fail("GENERIC")
  /\ UNCHANGED <<input, ctx, has_buf, out_buf, freed, out, crypts>>

(* SET_TAG and the check.                                                  *)
CheckTag ==
  /\ step = "Tag" /\ op = "decrypt"
  /\ \/ ~forged /\ out_size' = text_size /\ Fail("NO_ERROR")
     \/ forged /\ UNCHANGED out_size /\ Fail("AUTH_FAILED")
     \/ UNCHANGED out_size /\ Fail("GENERIC")
  /\ UNCHANGED <<input, ctx, has_buf, out_buf, freed, out, crypts>>

(* The label exit: every path from NewCtx on comes here.                   *)
ClearsLess ==                   \* mutant: clears plain_size - sizeof(struct gcm_tag) bytes
  /\ step = "Exit" /\ step' = "Idle"
  /\ freed' = ToSet(Over(out_buf, Fill(text_size - TagSize, "zero")))
  /\ ctx' = FALSE /\ has_buf' = FALSE /\ out_buf' = <<>>
  /\ UNCHANGED <<input, rc, result, crypts>>

Exit ==
  /\ step = "Exit" /\ step' = "Idle"
  /\ freed' = ToSet(Over(out_buf, Fill(BlockSize, "zero")))
  /\ ctx' = FALSE /\ has_buf' = FALSE /\ out_buf' = <<>>
  /\ UNCHANGED <<input, rc, result, crypts>>

CryptNext ==
  \/ \E n \in -1..MaxText, f \in BOOLEAN : Crypt("decrypt", n, f)
  \/ \E n \in 0..MaxText : Crypt("encrypt", n, FALSE)
  \/ NewCtx \/ Setup \/ Update \/ CopyOut \/ GetTag \/ CheckTag \/ Exit

CryptSpec == CryptInit /\ [][CryptNext]_cryptVars

-----------------------------------------------------------------------------
(* Types; and a block is as long as the code computes it to be.            *)
CryptTypeOK ==
  /\ step \in {"Idle", "Ctx", "Setup", "Update", "Copy", "Tag", "Exit"}
  /\ op \in {"encrypt", "decrypt"} /\ text_size \in -1..MaxText /\ forged \in BOOLEAN
  /\ rc \in {"NO_ERROR", "GENERIC", "AUTH_FAILED"}
  /\ ctx \in BOOLEAN /\ has_buf = (step # "Idle") /\ freed \subseteq Bytes
  /\ out_buf \in Seq(Bytes) /\ Len(out_buf) = (IF has_buf THEN BlockSize ELSE 0)
  /\ out \in Seq(Bytes) /\ Len(out) <= text_size + TagSize
  /\ out_size \in -1..(MaxText + TagSize) /\ crypts \in 0..MaxCrypts

(* Whichever of the calls in between failed (76-148, 188-256), a block of  *)
(* the heap goes back with nothing of the text or the tag in it, for the   *)
(* next owner to find, and no context stays behind.                        *)
NothingLeaks == freed \subseteq {"zero"} /\ (step = "Idle" => ~ctx)

(* A decryption that returns NO_ERROR (252-254) gives the whole plain text *)
(* of a text that verified; one that returns AUTH_FAILED was given a       *)
(* forged one; and out_size is set by the successful calls only.           *)
Verified ==
  (step = "Idle" /\ crypts > 0) =>
    /\ (rc = "NO_ERROR" /\ op = "decrypt") => (~forged /\ out = Fill(text_size, "plain"))
    /\ (rc = "AUTH_FAILED" /\ op = "decrypt") => forged
    /\ out_size = (IF rc = "NO_ERROR" THEN Len(out) ELSE -1)
=============================================================================
