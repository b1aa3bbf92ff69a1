CONSTANTS
  Layers = 2
  States <- CharacterStates
  Entry <- CharacterEntry
  AnyState <- CharacterAny
  Length <- CharacterLength
  OneShots = {"run", "hit"}
  Blends = {"shut"}
  Randoms = {}
  Transitions <- CharacterTransitions
  Out <- CharacterOut
  Arc <- CharacterArc
  Fires <- CharacterFires
  Listeners <- CharacterListens
  Bools = {"fast"}
  Triggers = {"tap"}
  Steps = {0, 1, 3}
  MaxIterations = 4
  Horizon = 6
SPECIFICATION Spec
INVARIANTS OneTriggerEach MixIsConsistent QuietLayers
