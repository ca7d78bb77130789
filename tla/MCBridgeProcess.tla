---------------------------- MODULE MCBridgeProcess ----------------------------
EXTENDS BridgeProcess

TheSenders == {"EtherSignerListener", "EtherLeader"}

TwoCosigners == <<"ms_signer0", "ms_signer1">>

TheFile == [network |-> "testnet", ETH_PRIVATE_KEY |-> "hex"]

\* A leader, a signer on mainnet, a key with a prefix, a leader with a token and
\* the prefixed key, a token nobody has, and no mode.
SomeEnvironments ==
  { [MODE |-> "leader"],
    [mode |-> "signer", NETWORK |-> "mainnet"],
    [mode |-> "signer", eth_private_key |-> "0xhex"],
    [mode |-> "leader", network |-> "mainnet", token |-> "hsm", ETH_PRIVATE_KEY |-> "0xhex"],
    [mode |-> "signer", token |-> "lost", eth_private_key |-> "hex"],
    [network |-> "testnet"] }
=============================================================================
