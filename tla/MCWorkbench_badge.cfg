SPECIFICATION WorkbenchSpec
CONSTANTS
  Globe = Globe
  Sinusoidal = Sinusoidal
  Mollweide = Mollweide
  Flat = {Sinusoidal, Mollweide}
  Physical = Physical
  Political = Political
  Content = {Physical, Political}
  c1 = c1
  c2 = c2
  Camera = {c1, c2}
  NoBundle = NoBundle
  MaxJobs = 2
INVARIANTS
  BadgeIsTrue
