SPECIFICATION ListSpec
CONSTANTS
  tnum_task = 3
  tnum_exttask = 0
  TNUM_PRIORITY = 10
  tinib_inipri <- ListPri
  tinib_exepri <- ListPri
  tinib_maxact <- ListPri
  ActivationPri = {1, 5, 9}
PROPERTY ImplementsQueues
