CONSTANTS
  External = {a1}
  p1 = p1
  p2 = p2
  Phrases = {p1, p2}
  Passphrases = {w1, w2}
  Legacies <- MCLegacies
  Placeholder = placeholder
  Machines <- MCMachines
  FormTunings <- MCFormTunings
  Flags <- MCFlags
  Handlers = {h1}
  Operations = {"save", "address", "wallet", "auto"}
  SavesFail = TRUE
  MaxRequests = 5
  NoConfig = NoConfig
  NoWallet = NoWallet
  Nobody = Nobody
  NoPhrase = NoPhrase
SPECIFICATION Spec
INVARIANTS PhraseKept AddressKept TuningKept AdviceHolds
PROPERTIES GeneratedWalletMined
CHECK_DEADLOCK FALSE
