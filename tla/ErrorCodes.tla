----------------------------- MODULE ErrorCodes -----------------------------
(***************************************************************************)
(* How an error travels.  A call of the TEE API fails inside a TA; the     *)
(* crate makes an optee_utee::Error of the code; the entry point turns the *)
(* error a handler returns into a code again; the TEE hands it to the      *)
(* caller, another TA or a CA, whose crate makes an error of it with its   *)
(* own list of kinds.  Level 1 is the TA called last, level CA the client. *)
(* A code is modelled by the name of its constant.                         *)
(***************************************************************************)
EXTENDS Integers, FiniteSets

CONSTANTS CA   \* the level of the client: one more than the TAs of the chain

(* What the theorems assume of the constants. *)
CAAssumption == CA \in Nat /\ CA >= 2

VARIABLES level,     \* how far the answer has come
          stage,     \* the handler of this level runs, or has returned
          code,      \* the code its caller is given
          origin,    \* the origin the TEE reports with it
          error,     \* the error this level made of what it was answered
          source,    \* the code that started it
          died       \* the levels that panicked

codeVars == <<level, stage, code, origin, error, source, died>>

Common == {"GENERIC", "ACCESS_DENIED", "CANCEL", "ACCESS_CONFLICT", "EXCESS_DATA", "BAD_FORMAT",
  "BAD_PARAMETERS", "BAD_STATE", "ITEM_NOT_FOUND", "NOT_IMPLEMENTED", "NOT_SUPPORTED", "NO_DATA",
  "OUT_OF_MEMORY", "BUSY", "COMMUNICATION", "SECURITY", "SHORT_BUFFER", "EXTERNAL_CANCEL", "TARGET_DEAD"}

(* optee_utee::ErrorKind.                                                  *)
UteeKinds == Common \union {"CORRUPT_OBJECT", "CORRUPT_OBJECT_2", "STORAGE_NOT_AVAILABLE",
  "STORAGE_NOT_AVAILABLE_2", "OVERFLOW", "STORAGE_NO_SPACE", "MAC_INVALID", "SIGNATURE_INVALID",
  "TIME_NOT_SET", "TIME_NEEDS_RESET"}

(* optee_teec::ErrorKind: the client knows fewer.                          *)
TeecKinds == Common

(* Codes a TEE may return, two of them in neither list.                    *)
Codes == UteeKinds \union {"CIPHERTEXT_INVALID", "0x12345678"}

(* optee_utee: Error::from_raw_error.  Unknown keeps the code.             *)
UteeFromRaw(c) ==
  [kind |-> IF c \in UteeKinds THEN c ELSE "Unknown", held |-> c]

(* optee_teec: Error::from_raw_error.                                      *)
TeecFromRaw(c) ==
  [kind |-> IF c \in TeecKinds THEN c ELSE "Unknown", held |-> c]

(* raw_code of either crate: the code of the kind, or the one it holds.    *)
RawCode(e) == IF e.kind = "Unknown" THEN e.held ELSE e.kind

(* ErrorOrigin::from of either crate.                                      *)
OriginFrom(o) == IF o \in {"API", "COMMS", "TEE", "TRUSTED_APP"} THEN o ELSE "Unknown"

(* with_origin; an error that is not given one has origin Unknown.         *)
WithOrigin(e, o) == [kind |-> e.kind, held |-> e.held, origin |-> OriginFrom(o)]

Ok == [kind |-> "none", held |-> "SUCCESS", origin |-> "Unknown"]

CodeInit ==
  /\ level = 0 /\ stage = "runs" /\ code = "SUCCESS" /\ origin = "none"
  /\ error = Ok /\ source = "SUCCESS" /\ died = {}

(* tee_check: a call of the TEE API by the innermost TA, whose handler     *)
(* passes the error on with `?`.                                           *)
TeeCheck(c) ==
  /\ level = 0
  /\ error' = IF c = "SUCCESS" THEN Ok ELSE WithOrigin(UteeFromRaw(c), "none")
  /\ source' = c
  /\ level' = 1
  /\ UNCHANGED <<stage, code, origin, died>>

(* The entry point: Ok is success, an error its code, and the origin is    *)
(* the TA; a panic is answered by the TEE.                                 *)
LevelReturns(panics) ==
  /\ level \in 1 .. CA - 1 /\ stage = "runs"
  /\ code' = IF panics THEN "TARGET_DEAD"
             ELSE IF error.kind = "none" THEN "SUCCESS" ELSE RawCode(error)
  /\ origin' = IF panics THEN "TEE" ELSE "TRUSTED_APP"
  /\ died' = IF panics THEN died \union {level} ELSE died
  /\ stage' = "returned"
  /\ UNCHANGED <<level, error, source>>

(* tee_check_with_origin in a TA that called another and passes on the     *)
(* error.                                                                  *)
TeeCheckWithOrigin ==
  /\ level \in 1 .. CA - 2 /\ stage = "returned"
  /\ error' = IF code = "SUCCESS" THEN Ok ELSE WithOrigin(UteeFromRaw(code), origin)
  /\ level' = level + 1 /\ stage' = "runs"
  /\ UNCHANGED <<code, origin, source, died>>

(* teec_check_with_origin in the CA.                                       *)
TeecCheckWithOrigin ==
  /\ level = CA - 1 /\ stage = "returned"
  /\ error' = IF code = "SUCCESS" THEN Ok ELSE WithOrigin(TeecFromRaw(code), origin)
  /\ level' = CA
  /\ UNCHANGED <<stage, code, origin, source, died>>

CodeNext ==
  \/ \E c \in Codes \union {"SUCCESS"} : TeeCheck(c)
  \/ \E panics \in BOOLEAN : LevelReturns(panics)
  \/ TeeCheckWithOrigin \/ TeecCheckWithOrigin

CodeSpec == CodeInit /\ [][CodeNext]_codeVars

(* The code of the failed call reaches the client unchanged over any       *)
(* number of TAs, known to the lists on the way or not, and success stays  *)
(* success; only a panic replaces it ("raw_code() always round-trips").    *)
CodeCrosses ==
  level = CA => IF died # {} THEN RawCode(error) = "TARGET_DEAD"
                ELSE IF source = "SUCCESS" THEN error = Ok
                ELSE RawCode(error) = source

(* The kind the client sees is the one the failing TA saw, unless the      *)
(* client has no name for it, and then it is Unknown with that very code.  *)
KindCrosses ==
  level = CA /\ died = {} /\ source # "SUCCESS" =>
    \/ error.kind = UteeFromRaw(source).kind
    \/ error.kind = "Unknown" /\ error.held = source

(* TARGET_DEAD with an origin other than the TA means that the TA this     *)
(* client called is dead, and nothing else does: a TA that passes on the   *)
(* death of another one is alive.  The client pool drops a connection on   *)
(* exactly this.                                                           *)
DeadMeansMine ==
  level = CA => (error.kind = "TARGET_DEAD" /\ error.origin # "TRUSTED_APP" <=> CA - 1 \in died)
=============================================================================
