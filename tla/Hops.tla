-------------------------------- MODULE Hops --------------------------------
(***************************************************************************)
(* How rawsend.c turns the TTL a packet arrived with into the TTL of the   *)
(* decoys sent back: far enough to pass the devices in between, not far    *)
(* enough to reach the peer.                                               *)
(***************************************************************************)
EXTENDS Integers

Byte == 0..255

(* The initial TTLs systems use, which hop_estimate() assumes. *)
InitialTtl == {64, 128, 255}

(* Mutant: 128 is not thought of. *)
HopEstimateOfTwo(ttl) == (IF ttl <= 64 THEN 64 ELSE 255) - ttl
(* hop_estimate *)
HopEstimate(ttl) ==
  (IF ttl <= 64 THEN 64 ELSE IF ttl <= 128 THEN 128 ELSE 255) - ttl

(* calc_snd_ttl: a share pct of the way, but never less than -t asks for. *)
CalcSndTtl(hops, pct, ttl) ==
  LET share == (hops * pct) \div 100
  IN IF pct # 0 /\ share > ttl THEN share ELSE ttl

(* Whether a peer that many hops away is worth a decoy, and its TTL. *)
IsFar(hops, g_ctx)  == g_ctx.nohopest \/ hops > g_ctx.ttl
DecoyTtl(hops, g_ctx) ==
  IF g_ctx.nohopest THEN g_ctx.ttl ELSE CalcSndTtl(hops, g_ctx.dynamic_pct, g_ctx.ttl)
=============================================================================
