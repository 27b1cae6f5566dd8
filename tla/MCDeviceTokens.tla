--------------------------- MODULE MCDeviceTokens ---------------------------
(* One device with two tokens; secrets.env names none, one or both of them. *)
EXTENDS DeviceTokens
CONSTANTS kindle, d1, d2, bad
MCSecrets == {<<>>, <<<<kindle, d1>>>>, <<<<kindle, d1>>, <<kindle, d2>>>>,
              <<<<kindle, d2>>, <<kindle, bad>>>>}
=============================================================================
